---------------------------- MODULE Spec2Model ----------------------------
(***************************************************************************)
(* Model of the k6 reporting framework (src/011-reporting-framework.js)    *)
(* and of the test script that drives it (src/unnamed/part_000).           *)
(*                                                                         *)
(* Strings that the code only concatenates (api and scenario names, metric *)
(* names) are TLA+ strings.  Duration strings, which parseDuration scans   *)
(* character by character, are sequences of one-character strings.         *)
(* Times are in milliseconds, as Date.now() gives them.                    *)
(***************************************************************************)
EXTENDS Integers, Sequences, FiniteSets, TLC

VARIABLES
    cfg,        \* the configuration: apis, scenarios, scenarioConfig
    metrics,    \* the registry object returned by initializeMetrics
    counters,   \* k6 Counter values by metric name   (data.metrics[n].values.count)
    trends,     \* k6 Trend samples by metric name, in ascending order
    last,       \* the last call of the exported API and how it ended
    nrec,       \* number of API calls made so far
    now,        \* Date.now() - testStartTime, in ms
    phaseSeen,  \* the two latest getCurrentPhase results for one scenario
    pc,         \* per worker (VU): position in the default function
    wst,        \* per worker: locals of the iteration
    hist,       \* completed recordMetrics calls of the workers, per key
    summary,    \* TRUE once handleSummary has run
    report,     \* the tables generateReport built
    parsed,     \* the last duration string given to parseDuration, and the result
    crud,       \* the CRUD flow: position in the iteration, requests sent
    csv         \* the CSV rows getCSVData handed out, per iteration

vars == <<cfg, metrics, counters, trends, last, nrec, now, phaseSeen,
          pc, wst, hist, summary, report, parsed, crud, csv>>

----------------------------------------------------------------------------
(* Bounds of the model *)

MaxRecords == 2
MaxNowMs == 200000
MaxRequests == 2
MaxConcNowMs == 2000
MaxReportRecords == 3
MaxIterRequests == 3
MaxIterNowMs == 4000
MaxTokens == 2
MaxSeconds == 3700
MaxChars == 5
MaxCrudIterations == 2
MaxRows == 2
MaxCsvIterations == 3

----------------------------------------------------------------------------
(* JavaScript values *)

\* null, as passed for phaseIndex and returned by getCurrentPhase
Null == -1

Range(s) == {s[i] : i \in 1..Len(s)}

\* the tracked status codes
statusCodes == {400, 401, 403, 404, 500, 502, 503, 504}

----------------------------------------------------------------------------
(* parseDuration *)

Digits == {"0", "1", "2", "3", "4", "5", "6", "7", "8", "9"}
Units == {"s", "m", "h"}

DigitVal(c) ==
    CASE c = "0" -> 0 [] c = "1" -> 1 [] c = "2" -> 2 [] c = "3" -> 3
      [] c = "4" -> 4 [] c = "5" -> 5 [] c = "6" -> 6 [] c = "7" -> 7
      [] c = "8" -> 8 [] c = "9" -> 9

\* parseInt(match[1]) of the digits str[i..j]
RECURSIVE ParseInt(_, _, _)
ParseInt(str, i, j) ==
    IF j < i THEN 0 ELSE ParseInt(str, i, j - 1) * 10 + DigitVal(str[j])

\* last index of the run of digits that starts at i
RECURSIVE DigitRunEnd(_, _)
DigitRunEnd(str, i) ==
    IF i < Len(str) /\ str[i + 1] \in Digits THEN DigitRunEnd(str, i + 1) ELSE i

UnitSecondsFlat(unit) == 1

UnitSeconds(unit) ==
    CASE unit = "s" -> 1 [] unit = "m" -> 60 [] unit = "h" -> 3600

\* the loop over regex.exec: /(\d+)([smh])/g scanning from index i
RECURSIVE ScanDuration(_, _, _)
ScanDuration(str, i, totalSeconds) ==
    IF i > Len(str) THEN totalSeconds
    ELSE IF str[i] \notin Digits THEN ScanDuration(str, i + 1, totalSeconds)
    ELSE LET j == DigitRunEnd(str, i)
         IN  IF j < Len(str) /\ str[j + 1] \in Units
             THEN ScanDuration(str, j + 2,
                      totalSeconds + ParseInt(str, i, j) * UnitSeconds(str[j + 1]))
             ELSE ScanDuration(str, j + 1, totalSeconds)

parseDuration(duration) ==
    IF duration = <<>> \/ duration = <<"0", "s">> THEN 0
    ELSE ScanDuration(duration, 1, 0)

----------------------------------------------------------------------------
(* getCurrentPhase *)

\* config.phases is present (config?.phases is truthy)
HasPhases(scenarioName, scenarioConfig) ==
    /\ scenarioName \in DOMAIN scenarioConfig
    /\ scenarioConfig[scenarioName].hasPhases

\* config.startTime || '0s'  (a missing startTime is the empty string)
StartTimeOf(config) ==
    IF config.startTime = <<>> THEN <<"0", "s">> ELSE config.startTime

\* scenarioElapsed, in ms: elapsedSeconds - scenarioStartOffset
ScenarioElapsedMs(config, elapsedMs) ==
    elapsedMs - parseDuration(StartTimeOf(config)) * 1000

NotStartedNever(scenarioElapsedMs) == FALSE

\* the scenario hasn't started yet
NotStarted(scenarioElapsedMs) == scenarioElapsedMs < 0

InPhaseInclusive(scenarioElapsedMs, cumulativeDuration, phaseDuration) ==
    scenarioElapsedMs <= (cumulativeDuration + phaseDuration) * 1000

InPhaseInverted(scenarioElapsedMs, cumulativeDuration, phaseDuration) ==
    scenarioElapsedMs > (cumulativeDuration + phaseDuration) * 1000

\* scenarioElapsed < cumulativeDuration + phaseDuration
InPhase(scenarioElapsedMs, cumulativeDuration, phaseDuration) ==
    scenarioElapsedMs < (cumulativeDuration + phaseDuration) * 1000

\* the for loop over config.phases, at 1-based position k (phase index k - 1)
RECURSIVE PhaseWalk(_, _, _, _)
PhaseWalk(phases, k, cumulativeDuration, scenarioElapsedMs) ==
    IF k > Len(phases) THEN Null
    ELSE LET phaseDuration == parseDuration(phases[k].duration)
         IN  IF InPhase(scenarioElapsedMs, cumulativeDuration, phaseDuration)
             THEN k - 1
             ELSE PhaseWalk(phases, k + 1, cumulativeDuration + phaseDuration,
                            scenarioElapsedMs)

getCurrentPhase(scenarioName, scenarioConfig, elapsedMs) ==
    IF ~HasPhases(scenarioName, scenarioConfig) THEN Null
    ELSE LET config == scenarioConfig[scenarioName]
             scenarioElapsedMs == ScenarioElapsedMs(config, elapsedMs)
         IN  IF NotStarted(scenarioElapsedMs) THEN Null
             ELSE PhaseWalk(config.phases, 1, 0, scenarioElapsedMs)

----------------------------------------------------------------------------
(* Metric names and initializeMetrics *)

\* `${kind}_${api}_${scenario}`
ScenarioMetricName(kind, api, scenario) ==
    kind \o "_" \o api \o "_" \o scenario

\* `${kind}_${api}_${scenario}_phase${phaseIndex}`
PhaseMetricName(kind, api, scenario, phaseIndex) ==
    kind \o "_" \o api \o "_" \o scenario \o "_phase" \o ToString(phaseIndex)

\* `status_${code}` as the kind of a status-code counter
StatusKind(code) == "status_" \o ToString(code)

\* the object of one MetricSet: the names of its Counters and of its Trend
ScenarioMetricSet(api, scenario) ==
    [count       |-> ScenarioMetricName("count", api, scenario),
     failed      |-> ScenarioMetricName("failed", api, scenario),
     duration    |-> ScenarioMetricName("duration", api, scenario),
     statusCodes |-> [code \in statusCodes |->
                         ScenarioMetricName(StatusKind(code), api, scenario)]]

PhaseMetricSet(api, scenario, phaseIndex) ==
    [count       |-> PhaseMetricName("count", api, scenario, phaseIndex),
     failed      |-> PhaseMetricName("failed", api, scenario, phaseIndex),
     duration    |-> PhaseMetricName("duration", api, scenario, phaseIndex),
     statusCodes |-> [code \in statusCodes |->
                         PhaseMetricName(StatusKind(code), api, scenario, phaseIndex)]]

(* An object of the registry, metrics[scenario][prop]: `ms` holds its        *)
(* MetricSet members (count, failed, duration, statusCodes) when it has     *)
(* them, `idx` its members under a numeric key.                             *)
PlainObject == [ms |-> <<>>, idx |-> <<>>]

\* the loop over apis of lines 21-33, from position k on
RECURSIVE AddScenarioSets(_, _, _, _)
AddScenarioSets(obj, apis, k, scenario) ==
    IF k > Len(apis) THEN obj
    ELSE AddScenarioSets(
             (apis[k] :> [ms |-> <<ScenarioMetricSet(apis[k], scenario)>>,
                          idx |-> <<>>]) @@ obj,
             apis, k + 1, scenario)

\* a forEach that stops one phase short
AddPhaseSetsShort(obj, apis, scenario, phases) ==
    [obj EXCEPT !["phases"].idx =
        [phaseIndex \in 0..(Len(phases) - 2) |->
            [api \in Range(apis) |-> PhaseMetricSet(api, scenario, phaseIndex)]]]

\* config.phases.forEach of lines 38-54: metrics[scenario].phases[phaseIndex][api]
AddPhaseSets(obj, apis, scenario, phases) ==
    [obj EXCEPT !["phases"].idx =
        [phaseIndex \in 0..(Len(phases) - 1) |->
            [api \in Range(apis) |-> PhaseMetricSet(api, scenario, phaseIndex)]]]

initializeMetrics(apis, scenarios, scenarioConfig) ==
    [scenario \in Range(scenarios) |->
        LET withApis == AddScenarioSets("phases" :> PlainObject, apis, 1, scenario)
        IN  IF HasPhases(scenario, scenarioConfig)
            THEN AddPhaseSets(withApis, apis, scenario,
                              scenarioConfig[scenario].phases)
            ELSE withApis]

----------------------------------------------------------------------------
(* recordMetrics *)

\* metrics[scenario]?.[api] is truthy (own properties only)
HasScenarioEntry(m, scenario, api) ==
    /\ scenario \in DOMAIN m
    /\ api \in DOMAIN m[scenario]

\* metrics[scenario]?.phases?.[phaseIndex]?.[api] is truthy
HasPhaseEntry(m, scenario, phaseIndex, api) ==
    /\ scenario \in DOMAIN m
    /\ phaseIndex \in DOMAIN m[scenario]["phases"].idx
    /\ api \in DOMAIN m[scenario]["phases"].idx[phaseIndex]

CounterOp(name) == [kind |-> "counter", name |-> name, v |-> 1]
TrendOp(name, v) == [kind |-> "trend", name |-> name, v |-> v]

SetOpsNoDuration(ms, res) ==
    <<CounterOp(ms.count)>>
    \o (IF res.status >= 400
        THEN <<CounterOp(ms.failed)>>
             \o (IF res.status \in DOMAIN ms.statusCodes
                 THEN <<CounterOp(ms.statusCodes[res.status])>> ELSE <<>>)
        ELSE <<>>)

SetOpsFailedAlways(ms, res) ==
    <<CounterOp(ms.count), TrendOp(ms.duration, res.duration),
      CounterOp(ms.failed)>>
    \o (IF res.status \in DOMAIN ms.statusCodes
        THEN <<CounterOp(ms.statusCodes[res.status])>> ELSE <<>>)

\* the add() calls recordMetrics makes on one MetricSet, in order
SetOps(ms, res) ==
    <<CounterOp(ms.count), TrendOp(ms.duration, res.duration)>>
    \o (IF res.status >= 400
        THEN <<CounterOp(ms.failed)>>
             \o (IF res.status \in DOMAIN ms.statusCodes
                 THEN <<CounterOp(ms.statusCodes[res.status])>> ELSE <<>>)
        ELSE <<>>)

(* metrics[scenario][api].count is undefined when the object found is not a  *)
(* MetricSet (the `phases` container): .add(1) on it is a TypeError, raised  *)
(* before any add() was made.                                               *)
RecordThrows(m, api, scenario) ==
    /\ HasScenarioEntry(m, scenario, api)
    /\ m[scenario][api].ms = <<>>

ScenarioLevelOps(m, api, scenario, res) ==
    IF HasScenarioEntry(m, scenario, api)
    THEN SetOps(m[scenario][api].ms[1], res)
    ELSE <<>>

PhaseLevelOps(m, api, scenario, phaseIndex, res) ==
    IF phaseIndex # Null /\ HasPhaseEntry(m, scenario, phaseIndex, api)
    THEN SetOps(m[scenario]["phases"].idx[phaseIndex][api], res)
    ELSE <<>>

\* every add() of one recordMetrics call that returns normally, in order
RecordOps(m, api, scenario, phaseIndex, res) ==
    ScenarioLevelOps(m, api, scenario, res)
    \o PhaseLevelOps(m, api, scenario, phaseIndex, res)

\* Counter.add(v)
CounterAdd(c, name, v) == [c EXCEPT ![name] = @ + v]

(* A Trend keeps its samples as a multiset: its values (min, max, avg,      *)
(* p(N)) do not depend on the order of the add() calls.  The samples are    *)
(* held in ascending order.                                                 *)
RECURSIVE SortedInsert(_, _)
SortedInsert(samples, v) ==
    IF samples = <<>> THEN <<v>>
    ELSE IF v <= Head(samples) THEN <<v>> \o samples
    ELSE <<Head(samples)>> \o SortedInsert(Tail(samples), v)

\* Trend.add(v)
TrendAdd(t, name, v) == [t EXCEPT ![name] = SortedInsert(@, v)]

ApplyCounter(c, op) ==
    IF op.kind = "counter" THEN CounterAdd(c, op.name, op.v) ELSE c

ApplyTrend(t, op) ==
    IF op.kind = "trend" THEN TrendAdd(t, op.name, op.v) ELSE t

RECURSIVE ApplyCounters(_, _)
ApplyCounters(c, ops) ==
    IF ops = <<>> THEN c ELSE ApplyCounters(ApplyCounter(c, Head(ops)), Tail(ops))

RECURSIVE ApplyTrends(_, _)
ApplyTrends(t, ops) ==
    IF ops = <<>> THEN t ELSE ApplyTrends(ApplyTrend(t, Head(ops)), Tail(ops))

----------------------------------------------------------------------------
(* Configurations *)

Phase(duration) == [duration |-> duration]

\* k6's default summaryTrendStats that the report reads, and those of a
\* script that asks for p(99) as well
DefaultTrendStats == {"avg", "min", "max", "p(90)", "p(95)"}
AllTrendStats == {"min", "max", "avg", "p(90)", "p(95)", "p(99)"}

\* two scenarios as in the test script: one from 0s with two phases, one
\* starting later with a single phase
CfgLoadStress ==
    [apis |-> <<"home", "pizza">>,
     SLA |-> ("home" :> ("p90" :> 200 @@ "p95" :> 400))
             @@ ("pizza" :> ("p95" :> 400 @@ "p99" :> 500)),
     summaryTrendStats |-> AllTrendStats,
     scenarios |-> <<"load", "stress">>,
     otherApis |-> {}, otherScenarios |-> {}, maxPhaseArg |-> 1,
     scenarioConfig |->
        ("load" :> [startTime |-> <<"0", "s">>, hasPhases |-> TRUE,
                    phases |-> <<Phase(<<"1", "s">>), Phase(<<"2", "s">>)>>])
        @@ ("stress" :> [startTime |-> <<"2", "s">>, hasPhases |-> TRUE,
                         phases |-> <<Phase(<<"1", "s">>)>>])]

\* a scenario whose name ends in _phase0 beside a scenario with one phase
\* and no startTime
CfgSuffix ==
    [apis |-> <<"home">>,
     SLA |-> ("home" :> ("p90" :> 100)),
     summaryTrendStats |-> DefaultTrendStats,
     scenarios |-> <<"load", "load_phase0">>,
     otherApis |-> {"phases"}, otherScenarios |-> {}, maxPhaseArg |-> 0,
     scenarioConfig |->
        ("load" :> [startTime |-> <<>>, hasPhases |-> TRUE,
                    phases |-> <<Phase(<<"1", "s">>)>>])
        @@ ("load_phase0" :> [startTime |-> <<"1", "s">>, hasPhases |-> TRUE,
                              phases |-> <<Phase(<<"1", "s">>)>>])]

\* phases of 1m and 2m from 0s; a scenario with zero phases; a scenario
\* without a phases field; a scenario without configuration
CfgMinutes ==
    [apis |-> <<"home">>,
     SLA |-> <<>>,
     summaryTrendStats |-> DefaultTrendStats,
     scenarios |-> <<"soak", "idle", "bare", "free">>,
     otherApis |-> {}, otherScenarios |-> {}, maxPhaseArg |-> 1,
     scenarioConfig |->
        ("soak" :> [startTime |-> <<"0", "s">>, hasPhases |-> TRUE,
                    phases |-> <<Phase(<<"1", "m">>), Phase(<<"2", "m">>)>>])
        @@ ("idle" :> [startTime |-> <<"0", "s">>, hasPhases |-> TRUE,
                       phases |-> <<>>])
        @@ ("bare" :> [startTime |-> <<"1", "s">>, hasPhases |-> FALSE,
                       phases |-> <<>>])]

\* an api called phases; a phase of duration 0s between two phases; a
\* compound start offset
CfgRamp ==
    [apis |-> <<"home", "phases">>,
     SLA |-> ("home" :> ("p90" :> 300 @@ "p95" :> 300 @@ "p99" :> 300)),
     summaryTrendStats |-> AllTrendStats,
     scenarios |-> <<"ramp">>,
     otherApis |-> {"orders"}, otherScenarios |-> {"other"}, maxPhaseArg |-> 2,
     scenarioConfig |->
        ("ramp" :> [startTime |-> <<"0", "m", "1", "s">>, hasPhases |-> TRUE,
                    phases |-> <<Phase(<<"1", "s">>), Phase(<<"0", "s">>),
                                 Phase(<<"1", "s">>)>>])]

Configs == {CfgLoadStress, CfgSuffix, CfgMinutes, CfgRamp}

(* The arguments the exported functions are called with under a           *)
(* configuration: its own apis and scenarios, the names otherApis and      *)
(* otherScenarios that it does not declare, and the phase indexes up to    *)
(* maxPhaseArg.                                                            *)
ApiArgs(c) == Range(c.apis) \cup c.otherApis
ScenarioArgs(c) == Range(c.scenarios) \cup c.otherScenarios
PhaseArgs(c) == {Null} \cup (0..c.maxPhaseArg)

\* responses: res.status and res.timings.duration
Responses ==
    {[status |-> 200, duration |-> 10],
     [status |-> 429, duration |-> 10],
     [status |-> 500, duration |-> 30]}

----------------------------------------------------------------------------
(* The k6 metrics behind the registry *)

\* the MetricSet objects reachable in the registry
AllSets(m) ==
    UNION {UNION {(IF m[s][p].ms # <<>> THEN {m[s][p].ms[1]} ELSE {})
                  \cup UNION {{m[s][p].idx[i][a] : a \in DOMAIN m[s][p].idx[i]}
                              : i \in DOMAIN m[s][p].idx}
                  : p \in DOMAIN m[s]}
           : s \in DOMAIN m}

\* new Counter(name): the Counters the registry holds
CounterNames(m) ==
    UNION {{ms.count, ms.failed} \cup {ms.statusCodes[c] : c \in statusCodes}
           : ms \in AllSets(m)}

\* new Trend(name, true): the Trends the registry holds
TrendNames(m) == {ms.duration : ms \in AllSets(m)}

NoCall ==
    [op |-> "none", api |-> "", scenario |-> "", phaseIndex |-> Null,
     status |-> 0, duration |-> 0, threw |-> FALSE, result |-> Null, at |-> 0]

\* a VU of the data-driven run between iterations
NoIteration == [step |-> "idle", scenario |-> "", idx |-> 0]

\* before setup: no data file loaded, no iteration run
NoCsv ==
    [loaded |-> FALSE, mode |-> "", loop |-> FALSE, scenarios |-> {},
     next |-> <<>>, it |-> <<>>, handed |-> {}, aborted |-> FALSE]

\* the CRUD flow between iterations, none run yet
NoFlow ==
    [step |-> "idle", iterations |-> 0, currentPhase |-> Null, sent |-> <<>>,
     ok |-> {}]

\* no duration parsed yet
NoParse ==
    [done |-> FALSE, duration |-> <<>>, tokens |-> <<>>, seconds |-> 0,
     result |-> 0]

\* nothing returned yet
NoPhaseSeen(scenario) ==
    [scenario |-> scenario, calls |-> 0, prev |-> Null, prevStarted |-> FALSE,
     cur |-> Null, curStarted |-> FALSE]

\* the MetricKeys the configuration declares: <<api, scenario, Null>> and
\* <<api, scenario, phaseIndex>>
DeclaredPhases(c, scenario) ==
    IF HasPhases(scenario, c.scenarioConfig)
    THEN Len(c.scenarioConfig[scenario].phases) ELSE 0

ScenarioKeys(c) ==
    {<<api, scenario, Null>> : api \in Range(c.apis), scenario \in Range(c.scenarios)}

PhaseKeys(c) ==
    UNION {{<<api, scenario, i>> : api \in Range(c.apis),
                                   i \in 0..(DeclaredPhases(c, scenario) - 1)}
           : scenario \in Range(c.scenarios)}

DeclaredKeys(c) == ScenarioKeys(c) \cup PhaseKeys(c)

----------------------------------------------------------------------------
(* Numbers of the report.  A JavaScript number that is the result of a      *)
(* division is held as a fraction [n, d] in lowest terms; d = 0 stands for  *)
(* the NaN that 0 / 0 gives.                                                *)

RECURSIVE GCD(_, _)
GCD(a, b) == IF b = 0 THEN a ELSE GCD(b, a % b)

\* a / b for integers a >= 0 and b >= 0
Frac(a, b) ==
    IF b = 0 THEN [n |-> 0, d |-> 0]
    ELSE LET g == GCD(a, b) IN [n |-> a \div g, d |-> b \div g]

Zero == Frac(0, 1)
IsNaN(q) == q.d = 0

\* a + b
FracAdd(a, b) ==
    IF IsNaN(a) \/ IsNaN(b) THEN Frac(0, 0)
    ELSE Frac(a.n * b.d + b.n * a.d, a.d * b.d)

\* a / k for an integer k >= 0
FracDiv(a, k) == IF IsNaN(a) THEN a ELSE Frac(a.n, a.d * k)

\* a < b (false when either is NaN)
FracLess(a, b) == ~IsNaN(a) /\ ~IsNaN(b) /\ a.n * b.d < b.n * a.d

\* the sum of a sequence of fractions
RECURSIVE FracSum(_)
FracSum(qs) == IF qs = <<>> THEN Zero ELSE FracAdd(Head(qs), FracSum(Tail(qs)))

\* Math.min(...qs) and Math.max(...qs) of a non-empty sequence
RECURSIVE FracMin(_)
FracMin(qs) ==
    IF Len(qs) = 1 THEN qs[1]
    ELSE LET rest == FracMin(Tail(qs))
         IN  IF FracLess(rest, Head(qs)) THEN rest ELSE Head(qs)

RECURSIVE FracMax(_)
FracMax(qs) ==
    IF Len(qs) = 1 THEN qs[1]
    ELSE LET rest == FracMax(Tail(qs))
         IN  IF FracLess(Head(qs), rest) THEN rest ELSE Head(qs)

\* two decimals of a hundredths count
TwoDigits(c) == (IF c < 10 THEN "0" ELSE "") \o ToString(c)

\* Number.prototype.toFixed(2): rounded to the nearest hundredth
toFixed2(q) ==
    IF IsNaN(q) THEN "NaN"
    ELSE LET hundredths == (2 * 100 * q.n + q.d) \div (2 * q.d)
         IN  ToString(hundredths \div 100) \o "." \o TwoDigits(hundredths % 100)

----------------------------------------------------------------------------
(* The summary data k6 hands to handleSummary: data.metrics *)

RECURSIVE SeqSum(_)
SeqSum(s) == IF s = <<>> THEN 0 ELSE Head(s) + SeqSum(Tail(s))

(* The percentile of a Trend: linear interpolation between the samples at   *)
(* floor and ceil of pct/100 * (count - 1); 0 without samples.              *)
TrendP(samples, pct) ==
    IF samples = <<>> THEN Zero
    ELSE LET i100 == pct * (Len(samples) - 1)
             lo == samples[(i100 \div 100) + 1]
             hi == samples[(i100 \div 100) + (IF i100 % 100 = 0 THEN 1 ELSE 2)]
         IN  Frac(lo * 100 + (hi - lo) * (i100 % 100), 100)

\* one statistic of a Trend (all are 0 for a Trend without samples)
TrendStat(samples, stat) ==
    IF samples = <<>> THEN Zero
    ELSE CASE stat = "min" -> Frac(samples[1], 1)
           [] stat = "max" -> Frac(samples[Len(samples)], 1)
           [] stat = "avg" -> Frac(SeqSum(samples), Len(samples))
           [] stat = "p(90)" -> TrendP(samples, 90)
           [] stat = "p(95)" -> TrendP(samples, 95)
           [] stat = "p(99)" -> TrendP(samples, 99)

\* data.metrics[name].values of a Trend: the statistics of summaryTrendStats
TrendValues(samples, summaryTrendStats) ==
    [stat \in summaryTrendStats |-> TrendStat(samples, stat)]

\* generateThresholds: a p(90) threshold on the duration metric of every
\* scenario and phase of each api whose SLA entry has a p90
Thresholds(c) ==
    UNION {{ScenarioMetricName("duration", api, scenario)}
           \cup {PhaseMetricName("duration", api, scenario, i) :
                     i \in 0..(DeclaredPhases(c, scenario) - 1)}
           : api \in {a \in Range(c.apis) :
                         a \in DOMAIN c.SLA /\ "p90" \in DOMAIN c.SLA[a]},
             scenario \in Range(c.scenarios)}

(* data.metrics: a metric is in the summary when it received a sample or    *)
(* has a threshold.  `values` of a Counter is [count]; of a Trend the       *)
(* statistics.                                                              *)
SummaryMetrics(c, cs, ts) ==
    LET seenCounters == {name \in DOMAIN cs : cs[name] > 0}
        seenTrends == {name \in DOMAIN ts :
                           ts[name] # <<>> \/ name \in Thresholds(c)}
    IN  [name \in seenCounters \cup seenTrends |->
            IF name \in seenCounters
            THEN [count |-> cs[name]]
            ELSE TrendValues(ts[name], c.summaryTrendStats)]
----------------------------------------------------------------------------
(* The table builders of the report *)

\* data.metrics[name]?.values?.count || 0
CountOf(data, name) == IF name \in DOMAIN data THEN data[name].count ELSE 0

\* dv[stat] || 0
StatOrZero(dv, stat) == IF stat \in DOMAIN dv THEN dv[stat] ELSE Zero

ErrorPctUnguarded(failed, total) == toFixed2(Frac(failed * 100, total))

\* const errorPct = total ? ((failed / total) * 100).toFixed(2) : '0.00'
ErrorPct(failed, total) ==
    IF total # 0 THEN toFixed2(Frac(failed * 100, total)) ELSE "0.00"

\* const hasSLA = SLA && SLA[api]
HasSLA(SLA, api) == api \in DOMAIN SLA

\* hasSLA && SLA[api].p90 !== undefined
HasSlaP90(SLA, api) == HasSLA(SLA, api) /\ "p90" \in DOMAIN SLA[api]

P90FailInclusive(SLA, api, p90) ==
    HasSlaP90(SLA, api) /\ ~FracLess(p90, Frac(SLA[api]["p90"], 1))

\* const p90Fail = slaP90 !== 'N/A' && p90 > slaP90
P90Fail(SLA, api, p90) ==
    HasSlaP90(SLA, api) /\ FracLess(Frac(SLA[api]["p90"], 1), p90)

\* let status = 'N/A'; if (hasSLA && total > 0) status = p90Fail ? 'FAIL' : 'PASS'
StatusOf(SLA, api, total, p90) ==
    IF HasSLA(SLA, api) /\ total > 0
    THEN (IF P90Fail(SLA, api, p90) THEN "FAIL" ELSE "PASS")
    ELSE "N/A"

\* rows.push({...}): stats maps min, max, avg, p(90), p(95), p(99) to numbers
MakeRow(SLA, api, total, failed, stats) ==
    [api |-> api,
     sla |-> IF HasSlaP90(SLA, api) THEN ToString(SLA[api]["p90"]) ELSE "N/A",
     min |-> toFixed2(stats["min"]),
     max |-> toFixed2(stats["max"]),
     avg |-> toFixed2(stats["avg"]),
     p90 |-> toFixed2(stats["p(90)"]),
     p95 |-> toFixed2(stats["p(95)"]),
     p99 |-> toFixed2(stats["p(99)"]),
     total |-> total,
     passed |-> total - failed,
     failed |-> failed,
     errorPct |-> ErrorPct(failed, total),
     status |-> StatusOf(SLA, api, total, stats["p(90)"])]

\* the statistics of one duration metric, 0 for what is missing
MetricStats(data, durationMetricName) ==
    [stat \in AllTrendStats |->
        IF durationMetricName \in DOMAIN data
        THEN StatOrZero(data[durationMetricName], stat)
        ELSE Zero]

\* one row of buildScenarioTable and buildPhaseTable
MetricRow(data, SLA, api, countMetricName, failedMetricName, durationMetricName) ==
    MakeRow(SLA, api, CountOf(data, countMetricName),
            CountOf(data, failedMetricName),
            MetricStats(data, durationMetricName))

buildScenarioTable(data, scenario, SLA, apis) ==
    [k \in 1..Len(apis) |->
        MetricRow(data, SLA, apis[k],
                  ScenarioMetricName("count", apis[k], scenario),
                  ScenarioMetricName("failed", apis[k], scenario),
                  ScenarioMetricName("duration", apis[k], scenario))]

buildPhaseTable(data, scenario, phaseIndex, SLA, apis) ==
    [k \in 1..Len(apis) |->
        MetricRow(data, SLA, apis[k],
                  PhaseMetricName("count", apis[k], scenario, phaseIndex),
                  PhaseMetricName("failed", apis[k], scenario, phaseIndex),
                  PhaseMetricName("duration", apis[k], scenario, phaseIndex))]

\* allDurations: the values of the duration metrics that are in the data,
\* over scenarios[k..]
RECURSIVE AllDurations(_, _, _, _)
AllDurations(data, api, scenarios, k) ==
    IF k > Len(scenarios) THEN <<>>
    ELSE LET durationMetricName ==
                 ScenarioMetricName("duration", api, scenarios[k])
         IN  (IF durationMetricName \in DOMAIN data
              THEN <<data[durationMetricName]>> ELSE <<>>)
             \o AllDurations(data, api, scenarios, k + 1)

\* the sum that misses the scenario at position k
RECURSIVE SumCountsSkipFirst(_, _, _, _, _)
SumCountsSkipFirst(data, kind, api, scenarios, k) ==
    IF k + 1 > Len(scenarios) THEN 0
    ELSE CountOf(data, ScenarioMetricName(kind, api, scenarios[k + 1]))
         + SumCountsSkipFirst(data, kind, api, scenarios, k + 1)

\* total += ...count over the scenarios, for the Counters of one kind
RECURSIVE SumCounts(_, _, _, _, _)
SumCounts(data, kind, api, scenarios, k) ==
    IF k > Len(scenarios) THEN 0
    ELSE CountOf(data, ScenarioMetricName(kind, api, scenarios[k]))
         + SumCounts(data, kind, api, scenarios, k + 1)

\* allDurations.map(d => d[stat]).filter(v => v !== undefined && ...)
ValidStats(allDurations, stat) ==
    LET present == SelectSeq(allDurations, LAMBDA d : stat \in DOMAIN d)
    IN  [k \in 1..Len(present) |-> present[k][stat]]

\* allDurations.reduce((sum, d) => sum + (d[stat] || 0), 0) / allDurations.length
MeanStat(allDurations, stat) ==
    FracDiv(FracSum([k \in 1..Len(allDurations) |->
                        StatOrZero(allDurations[k], stat)]),
            Len(allDurations))

\* min, max, avg, p90, p95, p99 of the overall row (lines 244-256)
OverallStats(allDurations) ==
    [stat \in AllTrendStats |->
        IF Len(allDurations) > 0
        THEN CASE stat = "min" ->
                      (IF ValidStats(allDurations, "min") # <<>>
                       THEN FracMin(ValidStats(allDurations, "min")) ELSE Zero)
               [] stat = "max" ->
                      (IF ValidStats(allDurations, "max") # <<>>
                       THEN FracMax(ValidStats(allDurations, "max")) ELSE Zero)
               [] OTHER -> MeanStat(allDurations, stat)
        ELSE Zero]

buildOverallAggregateTable(data, SLA, apis, scenarios) ==
    [k \in 1..Len(apis) |->
        MakeRow(SLA, apis[k],
                SumCounts(data, "count", apis[k], scenarios, 1),
                SumCounts(data, "failed", apis[k], scenarios, 1),
                OverallStats(AllDurations(data, apis[k], scenarios, 1)))]

\* for (const status of [400, 401, 403, 404, 500, 502, 503, 504])
statusList == <<400, 401, 403, 404, 500, 502, 503, 504>>

\* totalCount of one (api, status): summed once across the scenarios
ErrorCount(data, api, status, scenarios) ==
    SumCounts(data, StatusKind(status), api, scenarios, 1)

\* r.pct = totalErrors ? ((r.count / totalErrors) * 100).toFixed(2) : '0.00'
ErrorShare(count, totalErrors) ==
    IF totalErrors # 0 THEN toFixed2(Frac(count * 100, totalErrors)) ELSE "0.00"

buildApiErrorCorrelation(data, apis, scenarios) ==
    LET pairs == [k \in 1..(Len(apis) * Len(statusList)) |->
                     [api |-> apis[((k - 1) \div Len(statusList)) + 1],
                      status |-> statusList[((k - 1) % Len(statusList)) + 1]]]
        counted == [k \in 1..Len(pairs) |->
                       [api |-> pairs[k].api, status |-> pairs[k].status,
                        count |-> ErrorCount(data, pairs[k].api,
                                             pairs[k].status, scenarios)]]
        finalRows == SelectSeq(counted, LAMBDA r : r.count > 0)
        totalErrors == SeqSum([k \in 1..Len(finalRows) |-> finalRows[k].count])
    IN  [k \in 1..Len(finalRows) |->
            [api |-> finalRows[k].api, status |-> finalRows[k].status,
             count |-> finalRows[k].count,
             pct |-> ErrorShare(finalRows[k].count, totalErrors)]]

\* nothing reported yet
NoReport ==
    [built |-> FALSE, threw |-> FALSE, overall |-> <<>>, scenario |-> <<>>,
     phase |-> <<>>, errors |-> <<>>, html |-> <<>>, console |-> <<>>]

\* config.name of a scenario without configuration is a TypeError (line 139)
ReportThrows(c) ==
    \E scenario \in Range(c.scenarios) : scenario \notin DOMAIN c.scenarioConfig

\* the <<scenario, phaseIndex>> pairs generateReport builds a phase table for
ReportedPhases(c) ==
    UNION {{<<scenario, i>> : i \in 0..(DeclaredPhases(c, scenario) - 1)}
           : scenario \in Range(c.scenarios)}

\* currentOffset with the start offset left out
RECURSIVE PhaseOffsetFromZero(_, _)
PhaseOffsetFromZero(config, k) ==
    IF k = 1 THEN 0
    ELSE PhaseOffsetFromZero(config, k - 1)
         + parseDuration(config.phases[k - 1].duration)

\* currentOffset when config.phases.forEach reaches position k (phase index
\* k - 1): parseDuration(config.startTime || '0s') plus the phaseDuration of
\* the phases before, in seconds
RECURSIVE PhaseOffset(_, _)
PhaseOffset(config, k) ==
    IF k = 1 THEN parseDuration(StartTimeOf(config))
    ELSE PhaseOffset(config, k - 1)
         + parseDuration(config.phases[k - 1].duration)

\* the section emitted for a phase, headed by phaseStart and phaseEnd (in
\* seconds after summary.startTime): its table if phaseRows.some(r =>
\* r.total > 0), otherwise the text "No data for this phase"
PhaseSection(scenario, phaseIndex, phaseStart, phaseDuration, phaseRows) ==
    IF \E k \in 1..Len(phaseRows) : phaseRows[k].total > 0
    THEN [scenario |-> scenario, phaseIndex |-> phaseIndex,
          phaseStart |-> phaseStart, phaseEnd |-> phaseStart + phaseDuration,
          kind |-> "table", rows |-> phaseRows]
    ELSE [scenario |-> scenario, phaseIndex |-> phaseIndex,
          phaseStart |-> phaseStart, phaseEnd |-> phaseStart + phaseDuration,
          kind |-> "No data for this phase", rows |-> <<>>]

\* config.phases.forEach of one scenario
ScenarioPhaseSections(c, data, scenario) ==
    [k \in 1..DeclaredPhases(c, scenario) |->
        PhaseSection(scenario, k - 1,
                     PhaseOffset(c.scenarioConfig[scenario], k),
                     parseDuration(c.scenarioConfig[scenario].phases[k].duration),
                     buildPhaseTable(data, scenario, k - 1, c.SLA, c.apis))]

\* for (const scenario of scenarios): the phase sections in the order emitted
RECURSIVE PhaseSections(_, _, _)
PhaseSections(c, data, scenarios) ==
    IF scenarios = <<>> THEN <<>>
    ELSE ScenarioPhaseSections(c, data, Head(scenarios))
         \o PhaseSections(c, data, Tail(scenarios))

\* printConsoleReport(data, SLA, apis, scenarios, scenarioConfig): the phase
\* sections it logs; config.name of a missing configuration throws (line 86)
printConsoleReport(c, data) ==
    IF ReportThrows(c) THEN <<>> ELSE PhaseSections(c, data, c.scenarios)

\* generateReport(data, SLA, apis, scenarios, scenarioConfig): its tables
generateReport(c, data) ==
    IF ReportThrows(c) THEN [NoReport EXCEPT !.threw = TRUE]
    ELSE [built |-> TRUE, threw |-> FALSE,
          overall |-> buildOverallAggregateTable(data, c.SLA, c.apis, c.scenarios),
          scenario |-> [scenario \in Range(c.scenarios) |->
                           buildScenarioTable(data, scenario, c.SLA, c.apis)],
          phase |-> [sp \in ReportedPhases(c) |->
                        buildPhaseTable(data, sp[1], sp[2], c.SLA, c.apis)],
          errors |-> buildApiErrorCorrelation(data, c.apis, c.scenarios),
          html |-> PhaseSections(c, data, c.scenarios),
          console |-> <<>>]

\* handleSummary(data): generateReport, then printConsoleReport
handleSummary(c, data) ==
    [generateReport(c, data) EXCEPT !.console = printConsoleReport(c, data)]

----------------------------------------------------------------------------
(* The state of a run *)

\* the virtual users
Workers == {"vu1", "vu2"}

\* locals of the default function: scenarioName, currentPhase, the group
\* reached (k), and the add() calls the running recordMetrics has yet to make
\* (pending) and has made (applied)
IdleWorker ==
    [scenarioName |-> "", currentPhase |-> Null, k |-> 0, status |-> 0,
     pending |-> <<>>, applied |-> 0]

\* the state once the init code has run: initializeMetrics (part_000:42)
InitFor(c, watched) ==
    /\ cfg = c
    /\ metrics = initializeMetrics(c.apis, c.scenarios, c.scenarioConfig)
    /\ counters = [n \in CounterNames(metrics) |-> 0]
    /\ trends = [n \in TrendNames(metrics) |-> <<>>]
    /\ last = NoCall
    /\ nrec = 0
    /\ now = 0
    /\ phaseSeen = NoPhaseSeen(watched)
    /\ pc = [w \in Workers |-> "idle"]
    /\ wst = [w \in Workers |-> IdleWorker]
    /\ hist = [key \in DeclaredKeys(c) |-> [n |-> 0, f |-> 0, u |-> 0]]
    /\ summary = FALSE
    /\ report = NoReport
    /\ parsed = NoParse
    /\ crud = NoFlow
    /\ csv = NoCsv

Init == \E c \in Configs : InitFor(c, "")

\* handleSummary(data): generateReport(data, SLA, testApis, scenarios, scenarioConfig)
GenerateReport ==
    /\ ~summary
    /\ summary' = TRUE
    /\ report' = handleSummary(cfg, SummaryMetrics(cfg, counters, trends))
    /\ UNCHANGED <<cfg, metrics, counters, trends, last, nrec, now, phaseSeen,
                   pc, wst, hist, parsed, crud, csv>>

----------------------------------------------------------------------------
(* Spec: the exported recorder called by one caller *)

\* one call recordMetrics(metrics, api, scenario, phaseIndex, res)
RecordMetrics(api, scenario, phaseIndex, res) ==
    /\ nrec < MaxRecords
    /\ nrec' = nrec + 1
    /\ IF RecordThrows(metrics, api, scenario)
       THEN /\ UNCHANGED <<counters, trends>>
            /\ last' = [NoCall EXCEPT !.op = "record", !.api = api,
                           !.scenario = scenario, !.phaseIndex = phaseIndex,
                           !.status = res.status, !.duration = res.duration,
                           !.threw = TRUE, !.at = nrec + 1]
       ELSE LET ops == RecordOps(metrics, api, scenario, phaseIndex, res)
            IN  /\ counters' = ApplyCounters(counters, ops)
                /\ trends' = ApplyTrends(trends, ops)
                /\ last' = [NoCall EXCEPT !.op = "record", !.api = api,
                               !.scenario = scenario, !.phaseIndex = phaseIndex,
                               !.status = res.status, !.duration = res.duration,
                               !.at = nrec + 1]
    /\ UNCHANGED <<cfg, metrics, now, phaseSeen, pc, wst, hist, summary, report, parsed, crud, csv>>

\* handleSummary: generateReport reads data.metrics and changes nothing
\* in the registry (part_000:201-212)
BuildReport ==
    /\ nrec < MaxRecords
    /\ nrec' = nrec + 1
    /\ last' = [NoCall EXCEPT !.op = "report", !.at = nrec + 1]
    /\ summary' = TRUE
    /\ report' = handleSummary(cfg, SummaryMetrics(cfg, counters, trends))
    /\ UNCHANGED <<cfg, metrics, counters, trends, now, phaseSeen, pc, wst, hist, parsed, crud, csv>>

Next ==
    \/ \E api \in ApiArgs(cfg), scenario \in ScenarioArgs(cfg),
          phaseIndex \in PhaseArgs(cfg), res \in Responses :
          RecordMetrics(api, scenario, phaseIndex, res)
    \/ BuildReport

Spec == Init /\ [][Next]_vars

----------------------------------------------------------------------------
(* SpecPhase: getCurrentPhase called for one scenario as time passes *)

\* ms between two calls
TickSteps == {0, 500, 1500, 30000}

InitPhase ==
    \E c \in Configs : \E scenario \in ScenarioArgs(c) : InitFor(c, scenario)

\* scenarioElapsed >= 0 at elapsedMs (FALSE without configuration)
Started(scenarioName, scenarioConfig, elapsedMs) ==
    /\ scenarioName \in DOMAIN scenarioConfig
    /\ ScenarioElapsedMs(scenarioConfig[scenarioName], elapsedMs) >= 0

(* One call getCurrentPhase(scenarioName, scenarioConfig, testStartTime),   *)
(* made d ms after the previous one: Date.now() is read inside the call.    *)
GetCurrentPhase(d) ==
    LET scenarioName == phaseSeen.scenario
        elapsedMs == now + d
        result == getCurrentPhase(scenarioName, cfg.scenarioConfig, elapsedMs)
    IN  /\ ~summary
        /\ elapsedMs <= MaxNowMs
        /\ now' = elapsedMs
        /\ last' = [NoCall EXCEPT !.op = "phase", !.scenario = scenarioName,
                       !.result = result, !.at = elapsedMs]
        /\ phaseSeen' = [phaseSeen EXCEPT
                            !.calls = IF @ < 2 THEN @ + 1 ELSE @,
                            !.prev = phaseSeen.cur,
                            !.prevStarted = phaseSeen.curStarted,
                            !.cur = result,
                            !.curStarted =
                                Started(scenarioName, cfg.scenarioConfig, elapsedMs)]
        /\ UNCHANGED <<cfg, metrics, counters, trends, nrec,
                       pc, wst, hist, summary, report, parsed, crud, csv>>

NextPhase ==
    \/ \E d \in TickSteps : GetCurrentPhase(d)
    \/ GenerateReport

SpecPhase == InitPhase /\ [][NextPhase]_vars

----------------------------------------------------------------------------
(* Properties of getCurrentPhase (SpecPhase) *)

\* d0 + ... + d(i-1), in seconds, for the phase list of a scenario
RECURSIVE CumulativeBefore(_, _)
CumulativeBefore(phases, i) ==
    IF i <= 0 THEN 0
    ELSE CumulativeBefore(phases, i - 1) + parseDuration(phases[i].duration)

LastConfig == cfg.scenarioConfig[last.scenario]
LastElapsedMs == ScenarioElapsedMs(LastConfig, last.at)
LastTotalMs == CumulativeBefore(LastConfig.phases, Len(LastConfig.phases)) * 1000

\* phase index i is the half-open interval [d0+..+d(i-1), d0+..+di)
InInterval(phases, i, elapsedMs) ==
    /\ CumulativeBefore(phases, i) * 1000 <= elapsedMs
    /\ elapsedMs < CumulativeBefore(phases, i + 1) * 1000

(* C8: for 0 <= e - s < d0+...+dn-1, getCurrentPhase returns the unique     *)
(* index i with d0+...+d(i-1) <= e - s < d0+...+di; a boundary instant      *)
(* belongs to the later phase; for phases of 1m and 2m from 0s the result   *)
(* is 0 at 30 s and 1 at 90 s.                                              *)
C8_HalfOpenPhase ==
    (/\ last.op = "phase"
     /\ HasPhases(last.scenario, cfg.scenarioConfig)
     /\ 0 <= LastElapsedMs
     /\ LastElapsedMs < LastTotalMs)
    => /\ last.result \in 0..(Len(LastConfig.phases) - 1)
       /\ \A i \in 0..(Len(LastConfig.phases) - 1) :
              InInterval(LastConfig.phases, i, LastElapsedMs) <=> i = last.result
       /\ (cfg = CfgMinutes /\ last.scenario = "soak" /\ last.at = 30000)
              => last.result = 0
       /\ (cfg = CfgMinutes /\ last.scenario = "soak" /\ last.at = 90000)
              => last.result = 1

\* a call at the boundary instant between phase 0 and phase 1 returned 1
C8_Witness ==
    /\ last.op = "phase"
    /\ cfg = CfgLoadStress /\ last.scenario = "load"
    /\ last.at = 1000
    /\ last.result = 1

(* C9: getCurrentPhase returns null when the elapsed time is before the     *)
(* start offset, when scenarioElapsed reaches or exceeds the sum of the     *)
(* phase durations, when the scenario declares zero phases, and when it     *)
(* has no configuration or no phases field.                                 *)
C9_NullCases ==
    last.op = "phase" =>
        /\ last.scenario \notin DOMAIN cfg.scenarioConfig => last.result = Null
        /\ (/\ last.scenario \in DOMAIN cfg.scenarioConfig
            /\ ~LastConfig.hasPhases) => last.result = Null
        /\ (/\ HasPhases(last.scenario, cfg.scenarioConfig)
            /\ \/ Len(LastConfig.phases) = 0
               \/ LastElapsedMs < 0
               \/ LastElapsedMs >= LastTotalMs) => last.result = Null

\* a call at the instant the last phase ends returned null
C9_Witness ==
    /\ last.op = "phase"
    /\ HasPhases(last.scenario, cfg.scenarioConfig)
    /\ Len(LastConfig.phases) > 0
    /\ LastElapsedMs = LastTotalMs
    /\ last.result = Null

\* the sections the HTML report and the console report print for a scenario
WindowsOf(scenario) ==
    {x \in Range(report.html) \cup Range(report.console) : x.scenario = scenario}

(* C29: the window the reports print for phase i of a scenario, from        *)
(* phaseStart to phaseEnd, is exactly the set of elapsed times at which     *)
(* getCurrentPhase returns i; a phase of duration 0 has an empty window     *)
(* and is never returned.                                                   *)
C29_WindowIsPhaseOfResolver ==
    (report.built /\ last.op = "phase") =>
        \A x \in WindowsOf(last.scenario) :
            /\ last.result = x.phaseIndex
                   <=> (x.phaseStart * 1000 <= last.at
                        /\ last.at < x.phaseEnd * 1000)
            /\ x.phaseStart = x.phaseEnd => last.result # x.phaseIndex

\* the reports of a run in which phase 2 of ramp, which follows a phase of
\* duration 0, was returned at the instant it starts
C29_Witness ==
    /\ report.built
    /\ last.op = "phase" /\ last.scenario = "ramp"
    /\ last.result = 2 /\ last.at = 2000
    /\ \E x \in WindowsOf("ramp") : x.phaseIndex = 1 /\ x.phaseStart = x.phaseEnd
    /\ \E x \in Range(report.console) :
           x.phaseIndex = 2 /\ x.phaseStart = 2 /\ x.phaseEnd = 3

\* the result cur of a call after a call that returned prev
NonDecreasingUntilNull(prev, cur) ==
    /\ prev = Null => cur = Null
    /\ (prev # Null /\ cur # Null) => cur >= prev

----------------------------------------------------------------------------
(* Properties of initializeMetrics and recordMetrics (Spec) *)

\* the (api, scenario) pair is declared in the configuration
Registered(api, scenario) ==
    api \in Range(cfg.apis) /\ scenario \in Range(cfg.scenarios)

\* the metric names a MetricKey stands for
KeySet(key) ==
    IF key[3] = Null THEN ScenarioMetricSet(key[1], key[2])
    ELSE PhaseMetricSet(key[1], key[2], key[3])

KeyNames(key) ==
    {KeySet(key).count, KeySet(key).failed, KeySet(key).duration}
    \cup {KeySet(key).statusCodes[code] : code \in statusCodes}

Bump(cond) == IF cond THEN 1 ELSE 0

\* a failure whose status code has no counter of its own
Untracked(status) == status >= 400 /\ status \notin statusCodes

\* how many times v occurs among the samples
Occurrences(samples, v) == Cardinality({i \in 1..Len(samples) : samples[i] = v})

\* in this step MetricSet ms takes the update of one response
SetUpdated(ms, status, duration) ==
    /\ counters'[ms.count] = counters[ms.count] + 1
    /\ Len(trends'[ms.duration]) = Len(trends[ms.duration]) + 1
    /\ \A v \in Range(trends'[ms.duration]) \cup {duration} :
           Occurrences(trends'[ms.duration], v) =
               Occurrences(trends[ms.duration], v) + Bump(v = duration)
    /\ counters'[ms.failed] = counters[ms.failed] + Bump(status >= 400)
    /\ \A code \in statusCodes :
           counters'[ms.statusCodes[code]] =
               counters[ms.statusCodes[code]] + Bump(status >= 400 /\ code = status)

\* in this step MetricSet ms does not change
SetUnchanged(ms) ==
    /\ counters'[ms.count] = counters[ms.count]
    /\ trends'[ms.duration] = trends[ms.duration]
    /\ counters'[ms.failed] = counters[ms.failed]
    /\ \A code \in statusCodes :
           counters'[ms.statusCodes[code]] = counters[ms.statusCodes[code]]

\* this step is a recordMetrics call
RecordStep == last'.op = "record" /\ nrec' # nrec

(* C1: for a registered (api, scenario), one recordMetrics call adds 1 to   *)
(* the scenario-level count, appends the response's duration, adds 1 to     *)
(* failed iff status >= 400, adds 1 to the status-code counter of the       *)
(* response's status iff it is >= 400 and tracked, and leaves the other     *)
(* status-code counters of that set unchanged.                              *)
C1_ScenarioLevelUpdate ==
    [][(RecordStep /\ Registered(last'.api, last'.scenario))
       => SetUpdated(ScenarioMetricSet(last'.api, last'.scenario),
                     last'.status, last'.duration)]_vars

\* a second record for a pair, with status 500, has been counted
C1_Witness ==
    /\ last.op = "record" /\ last.status = 500
    /\ Registered(last.api, last.scenario)
    /\ LET ms == ScenarioMetricSet(last.api, last.scenario)
       IN  /\ counters[ms.count] = 2
           /\ counters[ms.failed] = 1
           /\ counters[ms.statusCodes[500]] = 1
           /\ trends[ms.duration] = <<10, 30>>

\* the keys one call recordMetrics(api, scenario, phaseIndex) addresses
TargetKeys(api, scenario, phaseIndex) ==
    {<<api, scenario, Null>>}
    \cup (IF phaseIndex # Null THEN {<<api, scenario, phaseIndex>>} ELSE {})

(* C2: a recordMetrics call with a registered non-null phaseIndex applies   *)
(* the same update to the phase-level MetricSet as to the scenario-level    *)
(* one and leaves the MetricSet of every other key unchanged; with          *)
(* phaseIndex = null only the scenario-level set changes.                   *)
C2_SameUpdateOthersUnchanged ==
    [][(RecordStep /\ Registered(last'.api, last'.scenario))
       => \A key \in DeclaredKeys(cfg) :
              IF key \in TargetKeys(last'.api, last'.scenario, last'.phaseIndex)
              THEN SetUpdated(KeySet(key), last'.status, last'.duration)
              ELSE SetUnchanged(KeySet(key))]_vars

(* C4: recordMetrics never throws, changes nothing when (api, scenario) is  *)
(* not registered, and with an unregistered phase of a registered pair      *)
(* changes the scenario-level set only.                                     *)
C4_UnregisteredIsNoOp ==
    [][RecordStep
       => /\ ~last'.threw
          /\ ~Registered(last'.api, last'.scenario)
                 => (counters' = counters /\ trends' = trends)
          /\ (/\ Registered(last'.api, last'.scenario)
              /\ <<last'.api, last'.scenario, last'.phaseIndex>>
                     \notin DeclaredKeys(cfg))
                 => \A n \in DOMAIN counters :
                        n \notin KeyNames(<<last'.api, last'.scenario, Null>>)
                            => counters'[n] = counters[n]]_vars

\* the MetricKeys the registry object holds an entry for
RegistryKeys(m) ==
    UNION {{<<api, scenario, Null>> :
                api \in {p \in DOMAIN m[scenario] : m[scenario][p].ms # <<>>}}
           \cup UNION {{<<api, scenario, i>> :
                           api \in DOMAIN m[scenario]["phases"].idx[i]}
                       : i \in DOMAIN m[scenario]["phases"].idx}
           : scenario \in DOMAIN m}

(* C6: the registry holds one scenario-level key per (api, scenario) and    *)
(* one phase-level key per (api, scenario, i), 0 <= i < number of declared  *)
(* phases, with its metrics created, and no recordMetrics call (registered  *)
(* key or not) nor the report adds or removes a key.                        *)
C6_KeysFixed ==
    /\ RegistryKeys(metrics) = DeclaredKeys(cfg)
    /\ DOMAIN counters \cup DOMAIN trends =
           UNION {KeyNames(key) : key \in DeclaredKeys(cfg)}

\* after a record with an undeclared api and the report
C6_Witness ==
    /\ summary
    /\ last.op = "record"
    /\ last.api \notin Range(cfg.apis)
    /\ PhaseKeys(cfg) # {}

(* C7: two distinct MetricKeys never share a metric name.                   *)
C7_DistinctKeysDistinctNames ==
    \A k1 \in DeclaredKeys(cfg) : \A k2 \in DeclaredKeys(cfg) :
        k1 # k2 => KeyNames(k1) \cap KeyNames(k2) = {}

----------------------------------------------------------------------------
(* SpecConc: virtual users running the default function concurrently *)

\* the options built from the configuration need phases in every scenario
Runnable(c) ==
    \A scenario \in Range(c.scenarios) : HasPhases(scenario, c.scenarioConfig)

InitConc == \E c \in {x \in Configs : Runnable(x)} : InitFor(c, "")

\* options.scenarios[scenarioKey].startTime: no iteration before the offset
ScenarioStarted(scenario, elapsedMs) ==
    Started(scenario, cfg.scenarioConfig, elapsedMs)

\* ms between the starts of two iterations
IterationGaps == {0, 1000}

(* An iteration starts d ms after the previous one started:                 *)
(* const currentPhase = getCurrentPhase(...), which reads Date.now().       *)
StartIteration(w, scenario, d) ==
    /\ ~summary
    /\ pc[w] = "idle"
    /\ nrec < MaxRequests
    /\ now + d <= MaxConcNowMs
    /\ ScenarioStarted(scenario, now + d)
    /\ now' = now + d
    /\ wst' = [wst EXCEPT ![w] =
                  [IdleWorker EXCEPT
                      !.scenarioName = scenario,
                      !.currentPhase =
                          getCurrentPhase(scenario, cfg.scenarioConfig, now + d),
                      !.k = 1]]
    /\ pc' = [pc EXCEPT ![w] = "request"]
    /\ UNCHANGED <<cfg, metrics, counters, trends, last, nrec, phaseSeen,
                   hist, summary, report, parsed, crud, csv>>

\* http.get returns res and recordMetrics is entered
HttpGet(w, res) ==
    /\ pc[w] = "request"
    /\ nrec < MaxRequests
    /\ nrec' = nrec + 1
    /\ LET api == cfg.apis[wst[w].k]
       IN  IF RecordThrows(metrics, api, wst[w].scenarioName)
           THEN /\ pc' = [pc EXCEPT ![w] = "idle"]
                /\ wst' = [wst EXCEPT ![w] = IdleWorker]
           ELSE /\ pc' = [pc EXCEPT ![w] = "record"]
                /\ wst' = [wst EXCEPT
                              ![w].status = res.status,
                              ![w].pending =
                                  RecordOps(metrics, api, wst[w].scenarioName,
                                            wst[w].currentPhase, res)]
    /\ UNCHANGED <<cfg, metrics, counters, trends, last, now, phaseSeen,
                   hist, summary, report, parsed, crud, csv>>

\* the next add() of the running recordMetrics call
AddStep(w) ==
    /\ pc[w] = "record"
    /\ wst[w].pending # <<>>
    /\ counters' = ApplyCounter(counters, Head(wst[w].pending))
    /\ trends' = ApplyTrend(trends, Head(wst[w].pending))
    /\ wst' = [wst EXCEPT ![w].pending = Tail(@), ![w].applied = @ + 1]
    /\ UNCHANGED <<cfg, metrics, last, nrec, now, phaseSeen, pc, hist, summary, report, parsed, crud, csv>>

\* recordMetrics returns; the next group follows, or the iteration ends
RecordReturn(w) ==
    /\ pc[w] = "record"
    /\ wst[w].pending = <<>>
    /\ LET api == cfg.apis[wst[w].k]
           targets == TargetKeys(api, wst[w].scenarioName, wst[w].currentPhase)
                          \cap DeclaredKeys(cfg)
       IN  hist' = [key \in DOMAIN hist |->
                       IF key \in targets
                       THEN [n |-> hist[key].n + 1,
                             f |-> hist[key].f + Bump(wst[w].status >= 400),
                             u |-> hist[key].u + Bump(Untracked(wst[w].status))]
                       ELSE hist[key]]
    /\ IF wst[w].k < Len(cfg.apis)
       THEN /\ pc' = [pc EXCEPT ![w] = "request"]
            /\ wst' = [wst EXCEPT ![w].k = @ + 1, ![w].status = 0,
                                  ![w].applied = 0]
       ELSE /\ pc' = [pc EXCEPT ![w] = "idle"]
            /\ wst' = [wst EXCEPT ![w] = IdleWorker]
    /\ UNCHANGED <<cfg, metrics, counters, trends, last, nrec, now, phaseSeen,
                   summary, report, parsed, crud, csv>>

\* the iteration is interrupted when gracefulStop runs out: while the request
\* is in flight, or between two statements of recordMetrics
AbortPoints == {"request", "record"}

\* the VU is stopped in mid iteration; the rest of the iteration does not run
Abort(w) ==
    /\ pc[w] \in AbortPoints
    /\ pc' = [pc EXCEPT ![w] = "stopped"]
    /\ wst' = [wst EXCEPT ![w] = IdleWorker]
    /\ UNCHANGED <<cfg, metrics, counters, trends, last, nrec, now, phaseSeen,
                   hist, summary, report, parsed, crud, csv>>

\* the report is built as soon as one VU is between iterations
VusStoppedOne == \E w \in Workers : pc[w] \in {"idle", "stopped"}

\* the end of the test: no VU is running an iteration
VusStopped == \A w \in Workers : pc[w] \in {"idle", "stopped"}

\* handleSummary runs once every VU has stopped
HandleSummary ==
    /\ ~summary
    /\ VusStopped
    /\ summary' = TRUE
    /\ report' = handleSummary(cfg, SummaryMetrics(cfg, counters, trends))
    /\ UNCHANGED <<cfg, metrics, counters, trends, last, nrec, now, phaseSeen,
                   pc, wst, hist, parsed, crud, csv>>

NextConc ==
    \/ \E w \in Workers, scenario \in Range(cfg.scenarios), d \in IterationGaps :
          StartIteration(w, scenario, d)
    \/ \E w \in Workers, res \in Responses : HttpGet(w, res)
    \/ \E w \in Workers : AddStep(w)
    \/ \E w \in Workers : RecordReturn(w)
    \/ \E w \in Workers : Abort(w)
    \/ HandleSummary

SpecConc == InitConc /\ [][NextConc]_vars

----------------------------------------------------------------------------
(* Properties of concurrent recording (SpecConc) *)

NoCallInFlight == \A w \in Workers : pc[w] # "record"

(* C3: once all recordMetrics calls have completed, the count of every      *)
(* MetricKey equals the number of record calls that targeted the key and    *)
(* its failed counter the number of those with status >= 400.               *)
C3_NoLostUpdate ==
    NoCallInFlight =>
        \A key \in DeclaredKeys(cfg) :
            /\ counters[KeySet(key).count] = hist[key].n
            /\ counters[KeySet(key).failed] = hist[key].f

(* C5: when the aggregator runs, every MetricSet's count equals the number  *)
(* of its duration samples, and every request recorded with a registered    *)
(* phase is counted at that phase level.                                    *)
C5_NoPartialRecord ==
    summary =>
        /\ \A key \in DeclaredKeys(cfg) :
               counters[KeySet(key).count] = Len(trends[KeySet(key).duration])
        /\ \A key \in PhaseKeys(cfg) :
               counters[KeySet(key).count] >= hist[key].n

\* the summary of a run in which two records went to one phase
C5_Witness ==
    /\ summary
    /\ \E key \in PhaseKeys(cfg) :
           /\ hist[key].n = 2
           /\ Len(trends[KeySet(key).duration]) = 2

TrackedSum(ms) ==
    counters[ms.statusCodes[400]] + counters[ms.statusCodes[401]]
    + counters[ms.statusCodes[403]] + counters[ms.statusCodes[404]]
    + counters[ms.statusCodes[500]] + counters[ms.statusCodes[502]]
    + counters[ms.statusCodes[503]] + counters[ms.statusCodes[504]]

(* C28: in every reachable state every MetricSet has sum of its status-code *)
(* counters <= failed <= count, and no table row has a negative passed;     *)
(* with no call in flight the first inequality is strict exactly when some  *)
(* failure recorded for the set had an untracked status code.              *)
C28_StatusSumWithinFailedWithinCount ==
    /\ \A key \in DeclaredKeys(cfg) :
           /\ TrackedSum(KeySet(key)) <= counters[KeySet(key).failed]
           /\ counters[KeySet(key).failed] <= counters[KeySet(key).count]
           /\ NoCallInFlight =>
                  (TrackedSum(KeySet(key)) < counters[KeySet(key).failed]
                       <=> hist[key].u > 0)
    /\ report.built =>
           /\ \A sp \in DOMAIN report.phase : \A k \in 1..Len(cfg.apis) :
                  /\ report.phase[sp][k].passed >= 0
                  /\ report.phase[sp][k].passed
                         = report.phase[sp][k].total - report.phase[sp][k].failed
           /\ \A scenario \in DOMAIN report.scenario : \A k \in 1..Len(cfg.apis) :
                  /\ report.scenario[scenario][k].passed >= 0
                  /\ report.scenario[scenario][k].passed
                         = report.scenario[scenario][k].total
                           - report.scenario[scenario][k].failed
           /\ \A k \in 1..Len(report.overall) :
                  /\ report.overall[k].passed >= 0
                  /\ report.overall[k].passed
                         = report.overall[k].total - report.overall[k].failed

(* C23: a VU stopped before its recordMetrics call returned has changed no  *)
(* counter and no distribution for that attempt.                            *)
C23_AbortLeavesNoTrace ==
    [][\A w \in Workers :
          pc[w] # "stopped" /\ pc'[w] = "stopped" => wst[w].applied = 0]_vars

----------------------------------------------------------------------------
(* SpecReport: requests recorded under registered keys, then the report *)

\* responses of the reported runs: res.status and res.timings.duration
ReportResponses ==
    {[status |-> 200, duration |-> 100],
     [status |-> 429, duration |-> 100],
     [status |-> 500, duration |-> 300]}

InitReport == \E c \in Configs : InitFor(c, "")

\* the phase indexes getCurrentPhase can return for a scenario
ResolvablePhases(c, scenario) ==
    {Null} \cup (0..(DeclaredPhases(c, scenario) - 1))

\* one request of a VU, recorded: recordMetrics(metrics, api, scenario,
\* currentPhase, res)
RecordRequest(api, scenario, phaseIndex, res) ==
    /\ ~summary
    /\ nrec < MaxReportRecords
    /\ nrec' = nrec + 1
    /\ LET ops == RecordOps(metrics, api, scenario, phaseIndex, res)
       IN  /\ counters' = ApplyCounters(counters, ops)
           /\ trends' = ApplyTrends(trends, ops)
    /\ hist' = [key \in DOMAIN hist |->
                   IF key \in TargetKeys(api, scenario, phaseIndex)
                   THEN [n |-> hist[key].n + 1,
                         f |-> hist[key].f + Bump(res.status >= 400),
                         u |-> hist[key].u + Bump(Untracked(res.status))]
                   ELSE hist[key]]
    /\ UNCHANGED <<cfg, metrics, last, now, phaseSeen, pc, wst, summary, report, parsed, crud, csv>>

NextReport ==
    \/ \E api \in Range(cfg.apis), scenario \in Range(cfg.scenarios),
          res \in ReportResponses :
          \E phaseIndex \in ResolvablePhases(cfg, scenario) :
              RecordRequest(api, scenario, phaseIndex, res)
    \/ GenerateReport

SpecReport == InitReport /\ [][NextReport]_vars

----------------------------------------------------------------------------
(* SpecIter: one VU's iterations with the time its requests take *)

\* the VU whose iterations are followed
Vu == "vu1"

\* ms an http.get takes, and ms between two iterations
IterSteps == {0, 500, 1000}

InitIter == InitConc

\* the call recordMetrics(metrics, api, scenario, phaseIndex, res) made at
\* elapsed time at
RecordedAt(api, scenario, phaseIndex, res, at) ==
    LET ops == RecordOps(metrics, api, scenario, phaseIndex, res)
    IN  /\ counters' = ApplyCounters(counters, ops)
        /\ trends' = ApplyTrends(trends, ops)
        /\ last' = [NoCall EXCEPT !.op = "record", !.api = api,
                       !.scenario = scenario, !.phaseIndex = phaseIndex,
                       !.status = res.status, !.duration = res.duration,
                       !.at = at]

(* The default function starts d ms after the last step:                    *)
(* const currentPhase = getCurrentPhase(scenarioName, scenarioConfig, ...)  *)
IterationStart(scenario, d) ==
    /\ pc[Vu] = "idle"
    /\ nrec < MaxIterRequests
    /\ now + d <= MaxIterNowMs
    /\ ScenarioStarted(scenario, now + d)
    /\ now' = now + d
    /\ wst' = [wst EXCEPT ![Vu] =
                  [IdleWorker EXCEPT
                      !.scenarioName = scenario,
                      !.currentPhase =
                          getCurrentPhase(scenario, cfg.scenarioConfig, now + d),
                      !.k = 1]]
    /\ pc' = [pc EXCEPT ![Vu] = "request"]
    /\ UNCHANGED <<cfg, metrics, counters, trends, last, nrec, phaseSeen,
                   hist, summary, report, parsed, crud, csv>>

(* The next group of the default function: http.get returns res after d ms *)
(* and recordMetrics is called with the currentPhase of the iteration.      *)
IterationRequest(d, res) ==
    /\ pc[Vu] = "request"
    /\ now + d <= MaxIterNowMs
    /\ now' = now + d
    /\ nrec' = nrec + 1
    /\ RecordedAt(cfg.apis[wst[Vu].k], wst[Vu].scenarioName,
                  wst[Vu].currentPhase, res, now + d)
    /\ IF wst[Vu].k < Len(cfg.apis) /\ nrec + 1 < MaxIterRequests
       THEN /\ pc' = pc
            /\ wst' = [wst EXCEPT ![Vu].k = @ + 1]
       ELSE /\ pc' = [pc EXCEPT ![Vu] = "idle"]
            /\ wst' = [wst EXCEPT ![Vu] = IdleWorker]
    /\ UNCHANGED <<cfg, metrics, phaseSeen, hist, summary, report, parsed, crud, csv>>

(* makeRequest(apiName, url, ...): http.get returns res after d ms, then    *)
(* getCurrentPhase is called and its result recorded.                       *)
MakeRequest(apiName, scenario, d, res) ==
    /\ pc[Vu] = "idle"
    /\ nrec < MaxIterRequests
    /\ now + d <= MaxIterNowMs
    /\ ScenarioStarted(scenario, now)
    /\ now' = now + d
    /\ nrec' = nrec + 1
    /\ RecordedAt(apiName, scenario,
                  getCurrentPhase(scenario, cfg.scenarioConfig, now + d),
                  res, now + d)
    /\ UNCHANGED <<cfg, metrics, phaseSeen, pc, wst, hist, summary, report, parsed, crud, csv>>

NextIter ==
    \/ \E scenario \in Range(cfg.scenarios), d \in IterSteps :
          IterationStart(scenario, d)
    \/ \E d \in IterSteps, res \in Responses : IterationRequest(d, res)
    \/ \E apiName \in Range(cfg.apis), scenario \in Range(cfg.scenarios),
          d \in IterSteps, res \in Responses :
          MakeRequest(apiName, scenario, d, res)

SpecIter == InitIter /\ [][NextIter]_vars

(* C11: every recorded request is recorded under the phase index that       *)
(* getCurrentPhase yields at the time the request completed.                *)
C11_RecordedUnderOwnPhase ==
    last.op = "record" =>
        last.phaseIndex =
            getCurrentPhase(last.scenario, cfg.scenarioConfig, last.at)

----------------------------------------------------------------------------
(* Properties of the report tables (SpecReport) *)

\* the metric is in the summary data
InSummary(name) ==
    \/ name \in DOMAIN counters /\ counters[name] > 0
    \/ name \in DOMAIN trends /\ (trends[name] # <<>> \/ name \in Thresholds(cfg))

\* a statistic of the samples recorded under a duration metric
SampleStat(name, stat) ==
    IF stat \in cfg.summaryTrendStats THEN TrendStat(trends[name], stat) ELSE Zero

\* the scenarios whose duration metric for the api is in the summary data
ScenariosInSummary(api) ==
    SelectSeq(cfg.scenarios,
              LAMBDA scenario :
                  InSummary(ScenarioMetricName("duration", api, scenario)))

\* the mean of a statistic of the api over a non-empty sequence of scenarios
MeanOver(scenarios, api, stat) ==
    FracDiv(FracSum([k \in 1..Len(scenarios) |->
                        SampleStat(ScenarioMetricName("duration", api,
                                                      scenarios[k]), stat)]),
            Len(scenarios))

\* the p90 behind the overall row of an api: the mean of the p90 of the
\* scenarios in the summary data
OverallP90(api) ==
    IF ScenariosInSummary(api) = <<>> THEN Zero
    ELSE MeanOver(ScenariosInSummary(api), api, "p(90)")

\* every row of the scenario, phase and overall tables, with the api it is
\* for and the p90 it shows (unrounded)
ScenarioRows ==
    {[table |-> "scenario", row |-> report.scenario[scenario][k],
      api |-> cfg.apis[k],
      p90 |-> SampleStat(ScenarioMetricName("duration", cfg.apis[k], scenario),
                         "p(90)")]
        : scenario \in DOMAIN report.scenario, k \in 1..Len(cfg.apis)}

PhaseRows ==
    {[table |-> "phase", row |-> report.phase[sp][k], api |-> cfg.apis[k],
      p90 |-> SampleStat(PhaseMetricName("duration", cfg.apis[k], sp[1], sp[2]),
                         "p(90)")]
        : sp \in DOMAIN report.phase, k \in 1..Len(cfg.apis)}

OverallRows ==
    {[table |-> "overall", row |-> report.overall[k], api |-> cfg.apis[k],
      p90 |-> OverallP90(cfg.apis[k])]
        : k \in 1..Len(report.overall)}

TableRows == ScenarioRows \cup PhaseRows \cup OverallRows

\* the row's p90 exceeds the p90 threshold of its api
ExceedsSla(r) ==
    /\ HasSlaP90(cfg.SLA, r.api)
    /\ r.row.total > 0
    /\ FracLess(Frac(cfg.SLA[r.api]["p90"], 1), r.p90)

(* C12: a row of the scenario, phase and overall tables is FAIL if and only *)
(* if its api has an SLA p90 threshold, its total is > 0 and its p90 is     *)
(* strictly greater than the threshold.                                     *)
C12_FailIffP90Exceeded ==
    report.built =>
        \A r \in TableRows :
            /\ r.row.api = r.api
            /\ r.row.p90 = toFixed2(r.p90)
            /\ (r.row.status = "FAIL") <=> ExceedsSla(r)

\* a report with a FAIL row and with a row whose p90 equals the threshold
C12_Witness ==
    /\ report.built
    /\ \E r \in TableRows : r.row.status = "FAIL"
    /\ \E r \in OverallRows :
           /\ HasSlaP90(cfg.SLA, r.api)
           /\ r.row.total > 1
           /\ r.p90 = Frac(cfg.SLA[r.api]["p90"], 1)
           /\ r.row.status = "PASS"

(* C13: a row that is not FAIL is N/A exactly when its api has no p90       *)
(* threshold or its total is 0, and PASS exactly when a p90 threshold       *)
(* exists, total > 0 and p90 does not exceed it.                            *)
C13_NaWithoutP90Threshold ==
    report.built =>
        \A r \in TableRows :
            r.row.status # "FAIL" =>
                /\ (r.row.status = "N/A")
                       <=> (~HasSlaP90(cfg.SLA, r.api) \/ r.row.total = 0)
                /\ (r.row.status = "PASS")
                       <=> (HasSlaP90(cfg.SLA, r.api) /\ r.row.total > 0
                            /\ ~ExceedsSla(r))

\* the requests recorded at scenario level for an api, over all scenarios
RECURSIVE RecordedForApi(_, _, _)
RecordedForApi(api, field, k) ==
    IF k > Len(cfg.scenarios) THEN 0
    ELSE hist[<<api, cfg.scenarios[k], Null>>][field]
         + RecordedForApi(api, field, k + 1)

(* C14: the overall row's total is the sum over the scenarios of the        *)
(* requests recorded at scenario level for the api and its failed the sum   *)
(* of those that failed; no request is counted twice.                       *)
C14_OverallSumsScenarioCounts ==
    report.built =>
        \A k \in 1..Len(cfg.apis) :
            /\ report.overall[k].total = RecordedForApi(cfg.apis[k], "n", 1)
            /\ report.overall[k].failed = RecordedForApi(cfg.apis[k], "f", 1)
            /\ report.overall[k].passed =
                   report.overall[k].total - report.overall[k].failed

\* the scenarios in which the api received at least one request
Contributing(api) ==
    SelectSeq(cfg.scenarios,
              LAMBDA scenario :
                  trends[ScenarioMetricName("duration", api, scenario)] # <<>>)

\* the statistics of the overall row that are means
MeanStats == {"avg", "p(90)", "p(95)", "p(99)"}

\* the field of a table row that shows a statistic
RowStat(row, stat) ==
    CASE stat = "min" -> row.min
      [] stat = "max" -> row.max
      [] stat = "avg" -> row.avg
      [] stat = "p(90)" -> row.p90
      [] stat = "p(95)" -> row.p95
      [] stat = "p(99)" -> row.p99

(* C15: avg, p90, p95 and p99 of the overall row are the unweighted mean of *)
(* the per-scenario statistic over the scenarios that contribute requests   *)
(* to the api, whatever the request count of each.                          *)
C15_OverallIsUnweightedMean ==
    report.built =>
        \A k \in 1..Len(cfg.apis) : \A stat \in MeanStats :
            RowStat(report.overall[k], stat) =
                IF Contributing(cfg.apis[k]) = <<>> THEN "0.00"
                ELSE toFixed2(MeanOver(Contributing(cfg.apis[k]), cfg.apis[k], stat))

\* the summary data without the metrics that received no sample
ObservedMetrics ==
    LET data == SummaryMetrics(cfg, counters, trends)
    IN  [name \in {n \in DOMAIN data :
                      n \in DOMAIN trends => trends[n] # <<>>} |-> data[name]]

(* C16: a scenario in which the api received no request takes no part in    *)
(* the overall row: the row is the one built from the summary data without  *)
(* the duration metrics that have no sample.                                *)
C16_ZeroRequestScenarioExcluded ==
    report.built =>
        report.overall =
            buildOverallAggregateTable(ObservedMetrics, cfg.SLA, cfg.apis,
                                       cfg.scenarios)

\* the per-scenario values of a statistic over the contributing scenarios
ContributedStats(api, stat) ==
    [k \in 1..Len(Contributing(api)) |->
        SampleStat(ScenarioMetricName("duration", api, Contributing(api)[k]),
                   stat)]

(* C17: the overall min is the minimum of the per-scenario mins and the     *)
(* overall max the maximum of the per-scenario maxes over the contributing  *)
(* scenarios; both are 0 when no scenario contributes.                      *)
C17_OverallMinMax ==
    report.built =>
        \A k \in 1..Len(cfg.apis) :
            IF Contributing(cfg.apis[k]) = <<>>
            THEN report.overall[k].min = "0.00" /\ report.overall[k].max = "0.00"
            ELSE /\ report.overall[k].min =
                        toFixed2(FracMin(ContributedStats(cfg.apis[k], "min")))
                 /\ report.overall[k].max =
                        toFixed2(FracMax(ContributedStats(cfg.apis[k], "max")))

\* the scenario-level counters of one status code of an api, summed
RECURSIVE StatusCounted(_, _, _)
StatusCounted(api, status, k) ==
    IF k > Len(cfg.scenarios) THEN 0
    ELSE counters[ScenarioMetricName(StatusKind(status), api, cfg.scenarios[k])]
         + StatusCounted(api, status, k + 1)

\* the positions of the error rows of one (api, status)
ErrorRowsOf(api, status) ==
    {i \in 1..Len(report.errors) :
        report.errors[i].api = api /\ report.errors[i].status = status}

\* the grand total of the error rows
ErrorRowsTotal ==
    SeqSum([i \in 1..Len(report.errors) |-> report.errors[i].count])

\* the error rows of one api, summed
ErrorRowsOfApi(api) ==
    SeqSum([i \in 1..Len(report.errors) |->
               IF report.errors[i].api = api THEN report.errors[i].count ELSE 0])

(* C18: the error table has one row per (api, tracked status code) whose    *)
(* scenario-level counters sum to more than 0, with that sum as its count;  *)
(* phase-level counters are not added, so the rows of an api do not exceed  *)
(* the failed requests recorded for it; each row's percentage is its share  *)
(* of the grand total of the rows.                                          *)
C18_ErrorRowsSumScenarioCounters ==
    report.built =>
        /\ \A api \in Range(cfg.apis) : \A status \in statusCodes :
               IF StatusCounted(api, status, 1) > 0
               THEN /\ Cardinality(ErrorRowsOf(api, status)) = 1
                    /\ \A i \in ErrorRowsOf(api, status) :
                           report.errors[i].count = StatusCounted(api, status, 1)
               ELSE ErrorRowsOf(api, status) = {}
        /\ \A i \in 1..Len(report.errors) :
               /\ report.errors[i].api \in Range(cfg.apis)
               /\ report.errors[i].status \in statusCodes
               /\ report.errors[i].pct =
                      toFixed2(Frac(report.errors[i].count * 100, ErrorRowsTotal))
        /\ \A api \in Range(cfg.apis) :
               ErrorRowsOfApi(api) <= RecordedForApi(api, "f", 1)

\* the texts a table row shows for its numbers
\* the sections emitted for phase i of a scenario
SectionsOf(sections, scenario, i) ==
    SelectSeq(sections, LAMBDA x : x.scenario = scenario /\ x.phaseIndex = i)

\* no record call carried phase i of the scenario, for any api
NothingRecordedIn(scenario, i) ==
    \A api \in Range(cfg.apis) : hist[<<api, scenario, i>>].n = 0

(* C24: for every declared phase of every scenario the console report and   *)
(* the HTML report emit exactly one section, which is the placeholder "No   *)
(* data for this phase" if and only if every api has zero recorded requests *)
(* in that phase, and otherwise the phase table with one row per api.       *)
C24_OneSectionPerPhase ==
    report.built =>
        \A sp \in ReportedPhases(cfg) :
            \A sections \in {report.html, report.console} :
                LET found == SectionsOf(sections, sp[1], sp[2])
                IN  /\ Len(found) = 1
                    /\ found[1].kind = "No data for this phase"
                           <=> NothingRecordedIn(sp[1], sp[2])
                    /\ found[1].kind = "table"
                           => Len(found[1].rows) = Len(cfg.apis)

\* the sum over the declared phases of a scenario of a phase-level counter
PhaseCounterSum(kind, api, scenario) ==
    SeqSum([k \in 1..DeclaredPhases(cfg, scenario) |->
               counters[PhaseMetricName(kind, api, scenario, k - 1)]])

\* the number of record calls for the pair that carried a declared phase
RecordedInPhases(api, scenario) ==
    SeqSum([k \in 1..DeclaredPhases(cfg, scenario) |->
               hist[<<api, scenario, k - 1>>].n])

\* the kinds of the counters of a MetricSet
CounterKinds == {"count", "failed"} \cup {StatusKind(code) : code \in statusCodes}

(* C27: for every (api, scenario) the phase-level counts summed over the    *)
(* phases of the scenario are at most the scenario-level count (the same    *)
(* for failed and each status-code counter), with equality exactly when     *)
(* every record of the pair carried a registered non-null phase; a request  *)
(* recorded with phase null is in the scenario table and in no phase table. *)
C27_PhaseCountsWithinScenarioCount ==
    \A api \in Range(cfg.apis) : \A scenario \in Range(cfg.scenarios) :
        /\ \A kind \in CounterKinds :
               PhaseCounterSum(kind, api, scenario)
                   <= counters[ScenarioMetricName(kind, api, scenario)]
        /\ PhaseCounterSum("count", api, scenario)
               = counters[ScenarioMetricName("count", api, scenario)]
           <=> RecordedInPhases(api, scenario) = hist[<<api, scenario, Null>>].n
        /\ report.built =>
               \A k \in 1..Len(cfg.apis) :
                   cfg.apis[k] = api =>
                       /\ report.scenario[scenario][k].total
                              = hist[<<api, scenario, Null>>].n
                       /\ \A i \in 0..(DeclaredPhases(cfg, scenario) - 1) :
                              report.phase[<<scenario, i>>][k].total
                                  = hist[<<api, scenario, i>>].n

(* C30: when the run has exactly one scenario, the overall table equals     *)
(* that scenario's table: for every api the two rows have the same total,   *)
(* passed, failed, errorPct, min, max, avg, p90, p95, p99, sla and status.  *)
C30_OverallEqualsSingleScenario ==
    (report.built /\ Len(cfg.scenarios) = 1) =>
        /\ Len(report.overall) = Len(report.scenario[cfg.scenarios[1]])
        /\ \A k \in 1..Len(report.overall) :
               LET o == report.overall[k]
                   r == report.scenario[cfg.scenarios[1]][k]
               IN  /\ o.api = r.api
                   /\ o.total = r.total /\ o.passed = r.passed
                   /\ o.failed = r.failed /\ o.errorPct = r.errorPct
                   /\ o.min = r.min /\ o.max = r.max /\ o.avg = r.avg
                   /\ o.p90 = r.p90 /\ o.p95 = r.p95 /\ o.p99 = r.p99
                   /\ o.sla = r.sla /\ o.status = r.status

\* the report of a run with one scenario, two requests of different
\* durations for one api, one of them failed
C30_Witness ==
    /\ report.built
    /\ Len(cfg.scenarios) = 1
    /\ \E k \in 1..Len(report.overall) :
           /\ report.overall[k].total = 2 /\ report.overall[k].failed = 1
           /\ report.overall[k].min = "100.00"
           /\ report.overall[k].max = "300.00"
           /\ report.overall[k].status = "PASS"

RowTexts(row) ==
    {row.min, row.max, row.avg, row.p90, row.p95, row.p99, row.errorPct}

(* C19: no aggregation divides by zero.  A row of the scenario, phase and   *)
(* overall tables with total 0 has errorPct "0.00", a row with traffic the  *)
(* percentage of its failed requests; the overall row of an api to which   *)
(* no scenario contributes has 0.00 for every statistic; no row of any      *)
(* table shows NaN.                                                         *)
C19_NoDivisionByZero ==
    report.built =>
        /\ \A r \in TableRows :
               /\ "NaN" \notin RowTexts(r.row)
               /\ r.row.errorPct =
                      IF r.row.total = 0 THEN "0.00"
                      ELSE toFixed2(Frac(r.row.failed * 100, r.row.total))
        /\ \A r \in OverallRows :
               Contributing(r.api) = <<>> =>
                   \A stat \in AllTrendStats : RowStat(r.row, stat) = "0.00"
        /\ \A i \in 1..Len(report.errors) : report.errors[i].pct # "NaN"

\* a report with a row without traffic, a row with half of its requests
\* failed, an api whose only duration metrics are empty ones, and no tracked
\* error at all
C19_Witness ==
    /\ report.built
    /\ \E r \in TableRows : r.row.total = 0 /\ r.row.errorPct = "0.00"
    /\ \E r \in TableRows : r.row.total = 2 /\ r.row.errorPct = "50.00"
    /\ \E r \in OverallRows :
           Contributing(r.api) = <<>> /\ ScenariosInSummary(r.api) # <<>>
    /\ report.errors = <<>>

----------------------------------------------------------------------------
(* SpecParse: parseDuration applied to well-formed duration strings *)

\* the decimal digits of n >= 0
RECURSIVE DigitsOf(_)
DigitsOf(n) ==
    IF n < 10 THEN <<ToString(n)>>
    ELSE DigitsOf(n \div 10) \o <<ToString(n % 10)>>

\* a token <integer><unit>; pad puts a 0 in front of the integer
TokenText(token) ==
    (IF token.pad THEN <<"0">> ELSE <<>>) \o DigitsOf(token.value)
    \o <<token.unit>>

\* the tokens concatenated with no separator
RECURSIVE TokensText(_)
TokensText(tokens) ==
    IF tokens = <<>> THEN <<>>
    ELSE TokenText(Head(tokens)) \o TokensText(Tail(tokens))

\* value*1 for s, value*60 for m, value*3600 for h, summed
RECURSIVE TokensSeconds(_)
TokensSeconds(tokens) ==
    IF tokens = <<>> THEN 0
    ELSE Head(tokens).value
             * (CASE Head(tokens).unit = "s" -> 1
                  [] Head(tokens).unit = "m" -> 60
                  [] Head(tokens).unit = "h" -> 3600)
         + TokensSeconds(Tail(tokens))

\* a number of seconds rendered as h, m and s tokens ("0s" for 0)
RenderSeconds(n) ==
    LET part(value, unit) ==
            IF value > 0
            THEN <<[value |-> value, unit |-> unit, pad |-> FALSE]>> ELSE <<>>
    IN  IF n = 0 THEN <<[value |-> 0, unit |-> "s", pad |-> FALSE]>>
        ELSE part(n \div 3600, "h") \o part((n % 3600) \div 60, "m")
             \o part(n % 60, "s")

TokenValues == {0, 1, 5, 10, 30, 90}
Tokens == [value : TokenValues, unit : Units, pad : BOOLEAN]

\* the sequences of 0 to MaxTokens tokens
TokenSeqs == UNION {[1..n -> Tokens] : n \in 0..MaxTokens}

InitParse == InitFor(CfgLoadStress, "")

\* parseDuration(duration) for the text of a sequence of tokens
ParseTokens(tokens) ==
    /\ ~parsed.done
    /\ parsed' = [done |-> TRUE,
                  duration |-> TokensText(tokens), tokens |-> tokens,
                  seconds |-> TokensSeconds(tokens),
                  result |-> parseDuration(TokensText(tokens))]
    /\ UNCHANGED <<cfg, metrics, counters, trends, last, nrec, now, phaseSeen,
                   pc, wst, hist, summary, report, crud, csv>>

\* parseDuration(duration) for n seconds rendered as tokens
ParseRendered(n) ==
    /\ ~parsed.done
    /\ parsed' = [done |-> TRUE,
                  duration |-> TokensText(RenderSeconds(n)),
                  tokens |-> RenderSeconds(n), seconds |-> n,
                  result |-> parseDuration(TokensText(RenderSeconds(n)))]
    /\ UNCHANGED <<cfg, metrics, counters, trends, last, nrec, now, phaseSeen,
                   pc, wst, hist, summary, report, crud, csv>>

NextParse ==
    \/ \E tokens \in TokenSeqs : ParseTokens(tokens)
    \/ \E n \in 0..MaxSeconds : ParseRendered(n)

SpecParse == InitParse /\ [][NextParse]_vars

(* C20: for a string that is a concatenation of <integer><unit> tokens,     *)
(* parseDuration returns the sum of value*1 for s, value*60 for m and       *)
(* value*3600 for h (parsed.seconds is that sum for ParseTokens and the     *)
(* number rendered for ParseRendered, which so parses back to itself);      *)
(* "" and "0s" give 0.                                                      *)
C20_ParsesTokenSum ==
    parsed.done =>
        /\ parsed.result = parsed.seconds
        /\ parsed.duration = <<>> => parsed.result = 0
        /\ parsed.duration = <<"0", "s">> => parsed.result = 0

\* "1m30s" parsed to 90
C20_Witness ==
    /\ parsed.done
    /\ parsed.duration = <<"1", "m", "3", "0", "s">>
    /\ parsed.result = 90

----------------------------------------------------------------------------
(* SpecLenient: parseDuration applied to arbitrary strings *)

TextChars == {"5", "0", "m", "s", "x"}

\* the strings of 0 to MaxChars characters
Texts == UNION {[1..n -> TextChars] : n \in 0..MaxChars}

\* last index of the run of non-digits that starts at i
RECURSIVE LetterRunEnd(_, _)
LetterRunEnd(str, i) ==
    IF i < Len(str) /\ str[i + 1] \notin Digits
    THEN LetterRunEnd(str, i + 1) ELSE i

\* the sum of the tokens <integer><unit> of str whose unit is exactly s, m
\* or h, a token being a run of digits and the run of non-digits after it
RECURSIVE RecognisedSeconds(_, _)
RecognisedSeconds(str, i) ==
    IF i > Len(str) THEN 0
    ELSE IF str[i] \notin Digits THEN RecognisedSeconds(str, i + 1)
    ELSE LET j == DigitRunEnd(str, i)
         IN  IF j = Len(str) THEN 0
             ELSE LET k == LetterRunEnd(str, j + 1)
                  IN  (IF k = j + 1 /\ str[k] \in Units
                       THEN ParseInt(str, i, j)
                            * (CASE str[k] = "s" -> 1 [] str[k] = "m" -> 60
                                 [] str[k] = "h" -> 3600)
                       ELSE 0)
                      + RecognisedSeconds(str, k + 1)

\* parseDuration(duration) for any string
ParseText(duration) ==
    /\ ~parsed.done
    /\ parsed' = [done |-> TRUE, duration |-> duration, tokens |-> <<>>,
                  seconds |-> RecognisedSeconds(duration, 1),
                  result |-> parseDuration(duration)]
    /\ UNCHANGED <<cfg, metrics, counters, trends, last, nrec, now, phaseSeen,
                   pc, wst, hist, summary, report, crud, csv>>

NextLenient == \E duration \in Texts : ParseText(duration)

SpecLenient == InitParse /\ [][NextLenient]_vars

(* C21: for every input string parseDuration returns the sum of only the    *)
(* well-formed <integer><s|m|h> tokens; a token with an unrecognised unit   *)
(* ("500ms") and a bare number contribute 0.                                *)
C21_UnrecognisedContributesZero ==
    parsed.done => parsed.result = parsed.seconds

----------------------------------------------------------------------------
(* SpecCrud: the default function of the CRUD script, one VU *)

\* SLA, TEST_APIS, SCENARIO_CONFIG of the CRUD script
CfgCrud ==
    [apis |-> <<"create_user", "get_user", "update_user", "delete_user">>,
     SLA |-> ("create_user" :> ("p90" :> 500 @@ "p95" :> 800 @@ "p99" :> 1200))
             @@ ("get_user" :> ("p90" :> 200 @@ "p95" :> 300 @@ "p99" :> 500))
             @@ ("update_user" :> ("p90" :> 400 @@ "p95" :> 600 @@ "p99" :> 900))
             @@ ("delete_user" :> ("p90" :> 300 @@ "p95" :> 500 @@ "p99" :> 800)),
     summaryTrendStats |-> DefaultTrendStats,
     scenarios |-> <<"crud_flow">>,
     otherApis |-> {}, otherScenarios |-> {}, maxPhaseArg |-> 1,
     scenarioConfig |->
        ("crud_flow" :> [startTime |-> <<"0", "s">>, hasPhases |-> TRUE,
                         phases |-> <<Phase(<<"2", "m">>), Phase(<<"5", "m">>)>>])]

CrudSteps == <<"create", "get", "update", "delete">>

\* the responses of the API: res.status and res.timings.duration
CrudResponses ==
    {[status |-> 200, duration |-> 100], [status |-> 500, duration |-> 100]}

\* ms between the end of an iteration and the start of the next
CrudGaps == {0, 120000}

InitCrud == InitFor(CfgCrud, "")

\* recordMetrics(metrics, api, scenarioName, currentPhase, res) of a step
CrudRecord(api, res) ==
    /\ LET ops == RecordOps(metrics, api, "crud_flow", crud.currentPhase, res)
       IN  /\ counters' = ApplyCounters(counters, ops)
           /\ trends' = ApplyTrends(trends, ops)
    /\ hist' = [key \in DOMAIN hist |->
                   IF key \in TargetKeys(api, "crud_flow", crud.currentPhase)
                   THEN [n |-> hist[key].n + 1,
                         f |-> hist[key].f + Bump(res.status >= 400),
                         u |-> hist[key].u + Bump(Untracked(res.status))]
                   ELSE hist[key]]
    /\ nrec' = nrec + 1

\* the iteration is over: pf.pause(1, 2)
CrudEnd(flow) == [flow EXCEPT !.step = "idle"]

\* the default function is entered d ms after the last iteration ended:
\* currentPhase = getCurrentPhase(scenarioName, SCENARIO_CONFIG, ...)
CrudStart(d) ==
    /\ crud.step = "idle"
    /\ crud.iterations < MaxCrudIterations
    /\ now' = now + d
    /\ crud' = [step |-> "create", iterations |-> crud.iterations + 1,
                currentPhase |->
                    getCurrentPhase("crud_flow", cfg.scenarioConfig, now + d),
                sent |-> <<>>, ok |-> {}]
    /\ UNCHANGED <<cfg, metrics, counters, trends, last, nrec, phaseSeen,
                   pc, wst, hist, summary, report, parsed, csv>>

\* group 'Create User': http.post, check, recordMetrics; the ids of the
\* response are extracted; "if (!userId || !customerId) return" after it
CreateUser(res, messageOk, ids) ==
    /\ crud.step = "create"
    /\ CrudRecord("create_user", res)
    /\ LET statusOk == res.status = 200 /\ messageOk
           correlated == statusOk /\ ids
           flow == [crud EXCEPT !.sent = Append(@, "create"),
                                !.ok = IF correlated THEN @ \cup {"create"} ELSE @]
       IN  crud' = IF correlated THEN [flow EXCEPT !.step = "get"]
                   ELSE CrudEnd(flow)
    /\ now' = now + 1000
    /\ UNCHANGED <<cfg, metrics, last, phaseSeen, pc, wst, summary, report,
                   parsed, csv>>

\* group 'Get User': http.get, check, recordMetrics; on a failed check the
\* callback of the group returns
GetUser(res, bodyOk) ==
    /\ crud.step = "get"
    /\ CrudRecord("get_user", res)
    /\ LET statusOk == res.status = 200 /\ bodyOk
       IN  crud' = [crud EXCEPT !.sent = Append(@, "get"),
                                !.ok = IF statusOk THEN @ \cup {"get"} ELSE @,
                                !.step = "update"]
    /\ now' = now + 1000
    /\ UNCHANGED <<cfg, metrics, last, phaseSeen, pc, wst, summary, report,
                   parsed, csv>>

\* group 'Update User': http.put, check, recordMetrics; on a failed check
\* the callback of the group returns; then shouldDelete is drawn
UpdateUser(res, messageOk, shouldDelete) ==
    /\ crud.step = "update"
    /\ CrudRecord("update_user", res)
    /\ LET statusOk == res.status = 200 /\ messageOk
           flow == [crud EXCEPT !.sent = Append(@, "update"),
                                !.ok = IF statusOk THEN @ \cup {"update"} ELSE @]
       IN  crud' = IF shouldDelete THEN [flow EXCEPT !.step = "delete"]
                   ELSE CrudEnd(flow)
    /\ now' = now + 1000
    /\ UNCHANGED <<cfg, metrics, last, phaseSeen, pc, wst, summary, report,
                   parsed, csv>>

\* group 'Delete User': http.del, check, recordMetrics
DeleteUser(res, messageOk) ==
    /\ crud.step = "delete"
    /\ CrudRecord("delete_user", res)
    /\ LET statusOk == res.status = 200 /\ messageOk
       IN  crud' = CrudEnd([crud EXCEPT
                               !.sent = Append(@, "delete"),
                               !.ok = IF statusOk THEN @ \cup {"delete"} ELSE @])
    /\ now' = now + 1000
    /\ UNCHANGED <<cfg, metrics, last, phaseSeen, pc, wst, summary, report,
                   parsed, csv>>

NextCrud ==
    \/ \E d \in CrudGaps : CrudStart(d)
    \/ \E res \in CrudResponses, messageOk \in BOOLEAN, ids \in BOOLEAN :
          CreateUser(res, messageOk, ids)
    \/ \E res \in CrudResponses, bodyOk \in BOOLEAN : GetUser(res, bodyOk)
    \/ \E res \in CrudResponses, messageOk \in BOOLEAN, shouldDelete \in BOOLEAN :
          UpdateUser(res, messageOk, shouldDelete)
    \/ \E res \in CrudResponses, messageOk \in BOOLEAN :
          DeleteUser(res, messageOk)

SpecCrud == InitCrud /\ [][NextCrud]_vars

(* C25: the requests of an iteration are sent in the order Create, Get,     *)
(* Update, Delete, and a request is sent only if every earlier step of the  *)
(* iteration succeeded.                                                     *)
C25_StepOnlyAfterSuccess ==
    /\ Len(crud.sent) <= Len(CrudSteps)
    /\ \A k \in 1..Len(crud.sent) : crud.sent[k] = CrudSteps[k]
    /\ \A k \in 2..Len(crud.sent) :
           \A j \in 1..(k - 1) : crud.sent[j] \in crud.ok

----------------------------------------------------------------------------
(* SpecCsv: VUs of one or two scenarios drawing rows with getCSVData *)

Modes == {"sequential", "random", "unique"}

\* the scenarios of a run: the CRUD script has one, others have several
ScenarioSets == {{"crud_flow"}, {"browse", "checkout"}}

\* what getCSVData(key, mode, loop) does for iteration number idx of a file
\* of total rows (rows are named by their index; random is the row that
\* Math.random() picks): returns a row, or aborts the test
getCSVData(total, idx, mode, loop, random) ==
    IF mode = "random" THEN [abort |-> FALSE, row |-> random]
    ELSE IF mode = "unique"
         THEN IF idx >= total
              THEN IF loop THEN [abort |-> FALSE, row |-> idx % total]
                   ELSE [abort |-> TRUE, row |-> Null]
              ELSE [abort |-> FALSE, row |-> idx]
         ELSE [abort |-> FALSE, row |-> idx % total]

\* setup: pf.loadDataFiles({users: ...}); the mode and loop arguments the
\* script passes and the scenarios of its options
LoadDataFiles(mode, loop, scenarios) ==
    /\ ~csv.loaded
    /\ csv' = [loaded |-> TRUE, mode |-> mode, loop |-> loop,
               scenarios |-> scenarios,
               next |-> [scenario \in scenarios |-> 0],
               it |-> [w \in Workers |-> NoIteration],
               handed |-> {}, aborted |-> FALSE]
    /\ UNCHANGED <<cfg, metrics, counters, trends, last, nrec, now, phaseSeen,
                   pc, wst, hist, summary, report, parsed, crud>>

\* k6 starts an iteration of a scenario on a VU and numbers it:
\* exec.scenario.iterationInTest counts the iterations of that scenario
BeginIteration(w, scenario) ==
    /\ csv.loaded
    /\ ~csv.aborted
    /\ csv.it[w].step = "idle"
    /\ scenario \in csv.scenarios
    /\ csv.next[scenario] < MaxCsvIterations
    /\ csv' = [csv EXCEPT
                  !.next[scenario] = @ + 1,
                  !.it[w] = [step |-> "get", scenario |-> scenario,
                             idx |-> csv.next[scenario]]]
    /\ UNCHANGED <<cfg, metrics, counters, trends, last, nrec, now, phaseSeen,
                   pc, wst, hist, summary, report, parsed, crud>>

\* const csvData = pf.getCSVData('users', mode, loop) in the iteration
GetCSVData(w, random) ==
    /\ csv.loaded
    /\ csv.it[w].step = "get"
    /\ LET result == getCSVData(MaxRows, csv.it[w].idx, csv.mode, csv.loop,
                                random)
       IN  csv' = [csv EXCEPT
                      !.it[w] = NoIteration,
                      !.aborted = @ \/ result.abort,
                      !.handed =
                          IF result.abort THEN @
                          ELSE @ \cup {[scenario |-> csv.it[w].scenario,
                                        idx |-> csv.it[w].idx,
                                        row |-> result.row]}]
    /\ UNCHANGED <<cfg, metrics, counters, trends, last, nrec, now, phaseSeen,
                   pc, wst, hist, summary, report, parsed, crud>>

NextCsv ==
    \/ \E mode \in Modes, loop \in BOOLEAN, scenarios \in ScenarioSets :
          LoadDataFiles(mode, loop, scenarios)
    \/ \E w \in Workers, scenario \in UNION ScenarioSets :
          BeginIteration(w, scenario)
    \/ \E w \in Workers, random \in 0..(MaxRows - 1) : GetCSVData(w, random)

SpecCsv == InitCrud /\ [][NextCsv]_vars

\* every iteration started has made its getCSVData call
AllRowsDrawn == \A w \in DOMAIN csv.it : csv.it[w].step = "idle"

(* C26: in 'unique' mode with loop = false no CSV row is handed to two      *)
(* different iterations, over all VUs and all scenarios, every row handed   *)
(* out is a row of the file, and once more iterations have run than there   *)
(* are rows the test is aborted.                                            *)
C26_UniqueRowPerIteration ==
    csv.loaded /\ csv.mode = "unique" /\ ~csv.loop =>
        /\ \A a \in csv.handed : \A b \in csv.handed : a.row = b.row => a = b
        /\ \A a \in csv.handed : a.row \in 0..(MaxRows - 1)
        /\ AllRowsDrawn /\ (\E scenario \in csv.scenarios :
                                csv.next[scenario] > MaxRows)
               => csv.aborted

=============================================================================
